---- MODULE Spec2Model ----
(***************************************************************************)
(* A model of the Bematore payment system: the PaymentTransaction and      *)
(* CallbackLog tables, the M-Pesa and Flutterwave gateway services, and    *)
(* the request handlers (webhooks, status polls, redirect callback and     *)
(* initiation) that act on them.  Each request is served by a worker; a    *)
(* handler is cut into steps at its database reads, its provider calls     *)
(* and its database writes, so that requests interleave as they do under   *)
(* a multi-worker server with an autocommit database.                      *)
(***************************************************************************)
EXTENDS Integers, Sequences, FiniteSets, TLC

VARIABLES
    payment_transactions,   \* table payment_transactions: transaction_id -> row
    callback_logs,          \* table callback_logs: sequence of rows, oldest first
    now,                    \* the time timezone.now() returns at the next write
    workers,                \* worker -> the request it serves (pc and locals)
    firebase_completed,     \* transaction_id -> number of completion syncs made
    ever_completed,         \* history: ids whose stored status was ever completed
    next_checkout,          \* provider side: number of checkout-request ids issued
    requests,               \* number of requests accepted so far
    WEBHOOK_SECRET,         \* settings.PAYMENT_CONFIG['FLUTTERWAVE']['WEBHOOK_SECRET']
    provider_requests,      \* provider endpoint -> number of requests sent to it
    http_response,          \* the response most recently returned to a caller
    firebase_result         \* what the completion sync made last returned

vars == <<payment_transactions, callback_logs, now, workers, firebase_completed,
          ever_completed, next_checkout, requests, WEBHOOK_SECRET,
          provider_requests, http_response, firebase_result>>

----------------------------------------------------------------------------
(* Bounds of the model *)

\* requests accepted in one behaviour
MaxRequests == 3

WorkerIds == {1, 2}
TxIds == {"t1"}

----------------------------------------------------------------------------
(* Values *)

\* Python's None / JSON null / SQL NULL
Null == "<None>"
\* completed_at IS NULL
NullTime == 0

\* JSON scalars whose Python type matters to the code (str() is applied)
JInt(n) == [t |-> "int", v |-> n]
JStr(s) == [t |-> "str", s |-> s]
JNull == [t |-> "null"]
\* a key the JSON object does not carry
JMissing == [t |-> "missing"]

\* dict.get(key, default) on a JSON object
DictGet(value, default) == IF value = JMissing THEN default ELSE value

Digit(d) ==
    CASE d = 0 -> "0" [] d = 1 -> "1" [] d = 2 -> "2" [] d = 3 -> "3"
      [] d = 4 -> "4" [] d = 5 -> "5" [] d = 6 -> "6" [] d = 7 -> "7"
      [] d = 8 -> "8" [] OTHER -> "9"

RECURSIVE IntToStr(_)
IntToStr(n) == IF n < 10 THEN Digit(n) ELSE IntToStr(n \div 10) \o Digit(n % 10)

\* Python's str() on a JSON scalar
PyStr(x) ==
    CASE x.t = "int" -> IntToStr(x.v)
      [] x.t = "str" -> x.s
      [] OTHER -> "None"

\* the checkout-request id the provider issues for its n-th accepted push
CheckoutId(n) == "ws_CO_" \o IntToStr(n)
UnknownCheckoutId == "ws_CO_unknown"

PAYMENT_STATUS == {"pending", "processing", "completed", "failed", "cancelled"}
TerminalStatus == {"completed", "failed", "cancelled"}

\* a key that a JSON object does not carry (dict.get then yields its default)
Missing == "<missing>"

----------------------------------------------------------------------------
(* Money, and CurrencyService: payments/services/currency_service.py.      *)
(* An amount is a number of hundredths of its currency's unit; a rate of   *)
(* the settings is a number of hundredths as well.                         *)

\* settings.PAYMENT_CONFIG['EXCHANGE_RATES']: units of the currency per USD
EXCHANGE_RATES == [USD |-> 100, KES |-> 14750, EUR |-> 85, GBP |-> 73]
\* settings.PAYMENT_CONFIG['DEFAULT_CURRENCY']
base_currency == "USD"
\* settings.PAYMENT_CONFIG['MINIMUM_AMOUNT'] and ['MAXIMUM_AMOUNT'], in USD
MINIMUM_AMOUNT == 100
MAXIMUM_AMOUNT == 1000000

\* str.upper() over the currency codes that are sent
Upper(code) ==
    CASE code = "usd" -> "USD"
      [] code = "kes" -> "KES"
      [] code = "eur" -> "EUR"
      [] code = "xyz" -> "XYZ"
      [] OTHER -> code

\* exchange_rates.get(code, 1.0)
RateOrOne(code) ==
    IF code \in DOMAIN EXCHANGE_RATES THEN EXCHANGE_RATES[code] ELSE 100

\* get_exchange_rate: the rate as the fraction <<numerator, denominator>>
\* whose quotient the code computes in floating point
get_exchange_rate(from_currency, to_currency) ==
    LET from == Upper(from_currency)
        to == Upper(to_currency)
    IN IF from = to THEN <<1, 1>>
       ELSE IF from = base_currency THEN <<RateOrOne(to), 100>>
       ELSE IF to = base_currency
            THEN IF RateOrOne(from) # 0 THEN <<100, RateOrOne(from)>> ELSE <<1, 1>>
       ELSE <<RateOrOne(to), RateOrOne(from)>>

\* the product amount * num / den cut to two places instead of rounded
Quantize_truncating(amount, num, den) ==
    (amount \div den) * num + ((amount % den) * num) \div den

\* Decimal.quantize(Decimal('0.01')) of amount * num / den under the default
\* rounding, ROUND_HALF_EVEN; the product is taken by parts to stay in range
Quantize(amount, num, den) ==
    LET whole == (amount \div den) * num + ((amount % den) * num) \div den
        rest == ((amount % den) * num) % den
    IN IF 2 * rest > den THEN whole + 1
       ELSE IF 2 * rest < den THEN whole
       ELSE IF whole % 2 = 0 THEN whole ELSE whole + 1

\* convert_amount: the rate, then the product rounded to two places
convert_amount(amount, from_currency, to_currency) ==
    LET rate == get_exchange_rate(from_currency, to_currency)
    IN Quantize(amount, rate[1], rate[2])

convert_to_usd(amount, from_currency) ==
    convert_amount(amount, from_currency, base_currency)

convert_from_usd(usd_amount, to_currency) ==
    convert_amount(usd_amount, base_currency, to_currency)

\* M-Pesa operates in KES
get_mpesa_amount(usd_amount) == convert_from_usd(usd_amount, "KES")

normalize_amount_for_storage(amount, currency) == convert_to_usd(amount, currency)

\* validate_currency_code
validate_currency_code(currency) == Upper(currency) \in DOMAIN EXCHANGE_RATES

----------------------------------------------------------------------------
(* Phone numbers: a number is the sequence of its characters *)

DigitChars == {"0", "1", "2", "3", "4", "5", "6", "7", "8", "9"}

\* ''.join(...)
RECURSIVE Join(_)
Join(chars) == IF chars = << >> THEN "" ELSE Head(chars) \o Join(Tail(chars))

StartsWith(chars, prefix) ==
    Len(chars) >= Len(prefix) /\ SubSeq(chars, 1, Len(prefix)) = prefix

\* an exception raised in a service, as the value that stands for the call
Raised(message) == [raised |-> TRUE, message |-> message]

\* MpesaService._format_phone_number: the digits of the number, brought to
\* the form 254XXXXXXXXX, or ValueError
_format_phone_number(phone) ==
    LET digits == SelectSeq(phone, LAMBDA c : c \in DigitChars)
    IN IF StartsWith(digits, <<"2", "5", "4">>)
       THEN [raised |-> FALSE, phone |-> digits]
       ELSE IF StartsWith(digits, <<"0">>)
       THEN [raised |-> FALSE, phone |-> <<"2", "5", "4">> \o Tail(digits)]
       ELSE IF Len(digits) = 9
       THEN [raised |-> FALSE, phone |-> <<"2", "5", "4">> \o digits]
       ELSE Raised("Invalid phone number format: " \o Join(digits))

----------------------------------------------------------------------------
(* MpesaService: payments/services/mpesa_service.py *)

\* status_mapping.get(str(result_code), 'failed')
_map_result_code(result_code) ==
    LET key == PyStr(result_code) IN
    CASE key = "0" -> "completed"
      [] key = "1032" -> "cancelled"
      [] key = "1037" -> "failed"
      [] key = "1025" -> "failed"
      [] key = "1001" -> "failed"
      [] key = "1019" -> "failed"
      [] key = "1026" -> "failed"
      [] key = "1036" -> "failed"
      [] key = "1054" -> "failed"
      [] key = "2001" -> "processing"
      [] OTHER -> "failed"

\* transaction_status as process_callback and query_stk_status derive it:
\* the ResultCode member read with get (None when absent), then mapped
transaction_status(ResultCode) == _map_result_code(DictGet(ResultCode, JNull))

\* What a Python function returns when it falls off its end
NoneResult == [returned |-> "None"]

\* payment_details before the metadata items are read: no key is set
NoPaymentDetails == [amount |-> Null, mpesa_receipt |-> Null]

\* the loop over metadata_items: each item's Value goes under the key of its
\* Name, a later item of the same Name replacing an earlier one
RECURSIVE payment_details(_, _)
payment_details(metadata_items, details) ==
    IF metadata_items = << >> THEN details
    ELSE LET item == Head(metadata_items)
         IN payment_details(Tail(metadata_items),
                CASE item.Name = "Amount" -> [details EXCEPT !.amount = item.Value]
                  [] item.Name = "MpesaReceiptNumber"
                        -> [details EXCEPT !.mpesa_receipt = item.Value]
                  [] OTHER -> details)

\* A callback body is valid JSON of shape "dict" (the accessors used by the
\* service work on it; an absent key reads as Null) or "malformed" (valid
\* JSON on which an accessor raises, e.g. a top-level list).
process_callback(callback_data) ==
    IF callback_data.shape # "dict"
    THEN NoneResult   \* the except branch builds error_response and returns nothing
    ELSE [returned |-> "dict",
          success |-> TRUE,
          checkout_request_id |-> callback_data.CheckoutRequestID,
          result_code |-> DictGet(callback_data.ResultCode, JNull),
          status |-> transaction_status(callback_data.ResultCode),
          mpesa_receipt |-> payment_details(callback_data.Item,
                                            NoPaymentDetails).mpesa_receipt]

\* The provider's answers to a status query: the token request raised, the
\* query raised (network error, timeout, a body that is not JSON), or an HTTP
\* answer.
query_stk_status(response) ==
    IF response.token_raised \/ response.raised
    THEN [success |-> FALSE, status |-> Null]
    ELSE IF response.status_code = 200
         THEN [success |-> TRUE, status |-> transaction_status(response.ResultCode)]
         ELSE [success |-> FALSE, status |-> Null]

\* the requests query_stk_status sends, in order
query_stk_status_requests(response) ==
    IF response.token_raised THEN <<"oauth">> ELSE <<"oauth", "stkpushquery">>

----------------------------------------------------------------------------
(* FlutterwaveService: payments/services/flutterwave_service.py *)

\* what a call yields when None has no attribute lower
AttributeError == "'NoneType' object has no attribute 'lower'"

\* x.lower() on a JSON scalar, over the status strings the model uses: only a
\* string has the method
PyLower(x) ==
    IF x.t # "str" THEN AttributeError
    ELSE CASE x.s = "SUCCESSFUL" -> "successful"
           [] x.s = "Successful" -> "successful"
           [] x.s = "Completed" -> "completed"
           [] x.s = "FAILED" -> "failed"
           [] OTHER -> x.s

\* a status_mapping without the entry for abandoned
_map_payment_status_without_abandoned(flutterwave_status) ==
    LET key == PyLower(flutterwave_status) IN
    CASE key = AttributeError -> AttributeError
      [] key = "successful" -> "completed"
      [] key = "completed" -> "completed"
      [] key = "pending" -> "processing"
      [] key = "failed" -> "failed"
      [] key = "cancelled" -> "cancelled"
      [] OTHER -> "failed"

\* status_mapping.get(flutterwave_status.lower(), 'failed')
_map_payment_status(flutterwave_status) ==
    LET key == PyLower(flutterwave_status) IN
    CASE key = AttributeError -> AttributeError
      [] key = "successful" -> "completed"
      [] key = "completed" -> "completed"
      [] key = "pending" -> "processing"
      [] key = "failed" -> "failed"
      [] key = "cancelled" -> "cancelled"
      [] key = "abandoned" -> "cancelled"
      [] OTHER -> "failed"

\* payment_status as process_webhook and verify_payment derive it:
\* data.get('status', '').lower(), then _map_payment_status
payment_status(status) ==
    LET lowered == PyLower(DictGet(status, JStr(""))) IN
    IF lowered = AttributeError THEN AttributeError
    ELSE _map_payment_status(JStr(lowered))

\* json.dumps(webhook_data, separators=(',', ':')): one text per payload
JsonDumps(webhook_data) == <<"json", webhook_data>>

\* hmac.new(key, msg, sha256).hexdigest(): a digest is determined by, and
\* determines, its key and message (no collisions, no forgery without the key)
HmacHexdigest(key, msg) == <<"hmac-sha256", key, msg>>

\* the empty header value ('' is falsy in Python)
EmptySignature == <<>>

\* a check that asks only for a signature and a secret to be there
_verify_webhook_signature_presence(webhook_data, signature, secret) ==
    signature # EmptySignature /\ secret # Null

\* a check without the test for a signature and a secret: the digest is
\* computed under whatever the secret is (None has no encode: the except
\* branch returns False)
_verify_webhook_signature_unguarded(webhook_data, signature, secret) ==
    IF secret = Null
    THEN FALSE
    ELSE signature = HmacHexdigest(secret, JsonDumps(webhook_data))

\* not signature or not self.config.get('WEBHOOK_SECRET'): an absent header
\* reads '', a secret that is not configured is None, or '' when the
\* environment variable is set empty
_verify_webhook_signature(webhook_data, signature, secret) ==
    IF signature = EmptySignature \/ secret = Null \/ secret = ""
    THEN FALSE
    ELSE signature = HmacHexdigest(secret, JsonDumps(webhook_data))

\* the signature check, then the status mapped; an exception on the way (the
\* lower() of a null status) is answered by the except branch with str(e)
process_webhook(webhook_data, signature, secret) ==
    IF ~_verify_webhook_signature(webhook_data, signature, secret)
    THEN [success |-> FALSE, error_message |-> "Invalid webhook signature",
          tx_ref |-> Null, flw_ref |-> Null, status |-> Null]
    ELSE IF payment_status(webhook_data.status) = AttributeError
    THEN [success |-> FALSE, error_message |-> AttributeError,
          tx_ref |-> Null, flw_ref |-> Null, status |-> Null]
    ELSE [success |-> TRUE, error_message |-> "",
          tx_ref |-> IF webhook_data.tx_ref = Missing THEN Null
                     ELSE webhook_data.tx_ref,
          flw_ref |-> webhook_data.flw_ref,
          status |-> payment_status(webhook_data.status)]

\* The provider's answer to verify_by_reference
verify_payment(response) ==
    IF response.raised
    THEN [success |-> FALSE, status |-> Null, flw_ref |-> Null,
          error_message |-> "request failed"]
    ELSE IF response.status_code = 200 /\ response.status = "success"
    THEN IF payment_status(response.data_status) = AttributeError
         THEN [success |-> FALSE, status |-> Null, flw_ref |-> Null,
               error_message |-> AttributeError]
         ELSE [success |-> TRUE,
               status |-> payment_status(response.data_status),
               flw_ref |-> response.flw_ref, error_message |-> Missing]
    ELSE [success |-> FALSE, status |-> Null, flw_ref |-> Null,
          error_message |-> "Payment verification failed"]

----------------------------------------------------------------------------
(* The tables: payments/models.py, callbacks/models.py *)

\* metadata = {} (the JSONField's default), and the currency-tracking
\* metadata the views store
NoMetadata == [display_amount |-> 0, display_currency |-> ""]
Metadata(display_amount, display_currency) ==
    [display_amount |-> display_amount, display_currency |-> display_currency]

\* A PaymentTransaction fresh from its field defaults
PaymentTransaction(transaction_id, user_uid, amount, payment_method, phone_number) ==
    [transaction_id |-> transaction_id,
     user_uid |-> user_uid,
     amount |-> amount,
     currency |-> "USD",
     payment_method |-> payment_method,
     phone_number |-> phone_number,
     status |-> "pending",
     mpesa_checkout_request_id |-> "",
     mpesa_receipt |-> "",
     flutterwave_tx_ref |-> "",
     flutterwave_flw_ref |-> "",
     failure_reason |-> "",
     metadata |-> NoMetadata,
     updated_at |-> NullTime,
     completed_at |-> NullTime]

\* PaymentTransaction.save(): stamps completed_at when the object is completed
\* and carries none, then writes every field of the object (auto_now stamps
\* updated_at); the result is the object as stored
save(self, clock) ==
    [self EXCEPT !.completed_at =
                    IF self.status = "completed" /\ self.completed_at = NullTime
                    THEN clock ELSE @,
                 !.updated_at = clock]

\* the table after a row is written under its primary key
Stored(table, row) ==
    [id \in DOMAIN table \cup {row.transaction_id} |->
        IF id = row.transaction_id THEN row ELSE table[id]]

\* an is_pending that takes a failed transaction for one still open
is_pending_or_failed(self) == self.status \in {"pending", "processing", "failed"}

\* PaymentTransaction.is_pending
is_pending(self) == self.status \in {"pending", "processing"}

\* a lookup that falls back on the pending rows when no id matches
ByCheckoutRequestId_or_pending(table, checkout_request_id) ==
    LET matching == {id \in DOMAIN table :
                        table[id].mpesa_checkout_request_id = checkout_request_id}
    IN IF matching # {} THEN matching
       ELSE {id \in DOMAIN table : table[id].status = "pending"}

\* objects.get(mpesa_checkout_request_id=...): the ids of the matching rows
\* (a None argument compares against NULL and matches no row)
ByCheckoutRequestId(table, checkout_request_id) ==
    IF checkout_request_id = Null THEN {}
    ELSE {id \in DOMAIN table :
            table[id].mpesa_checkout_request_id = checkout_request_id}

\* objects.get(transaction_id=...)
ByTransactionId(table, transaction_id) ==
    IF transaction_id = Null THEN {}
    ELSE {id \in DOMAIN table : id = transaction_id}

\* CallbackLog.objects.create(provider=..., transaction_id=..., raw_data=...)
CallbackLog(provider, transaction_id, raw_data, clock) ==
    [provider |-> provider,
     transaction_id |-> transaction_id,
     raw_data |-> raw_data,
     success |-> FALSE,
     processed |-> FALSE,
     error_message |-> "",
     created_at |-> clock]

----------------------------------------------------------------------------
(* Workers *)

Idle == [pc |-> "idle"]

\* a request goes to the first free worker
Accept(w) ==
    /\ workers[w] = Idle
    /\ \A v \in WorkerIds : v < w => workers[v] # Idle
    /\ requests < MaxRequests
    /\ requests' = requests + 1

\* timezone.now(): the clock has advanced whenever a row is written, so the
\* writes of a behaviour carry increasing stamps
Clock ==
    now' = IF payment_transactions' # payment_transactions
              \/ callback_logs' # callback_logs
           THEN now + 1 ELSE now

\* no completion sync has been made
NoSync == [called |-> FALSE, returned |-> FALSE]

\* update_user_payment_status and record_payment_in_firebase: True, or False
\* when the Firestore client raises (both catch every exception)
FirebaseReturns(firestore_available) ==
    [called |-> TRUE, returned |-> firestore_available]

\* a completion sync that puts the Transaction back when Firestore fails
AfterSync_rolled_back(saved, returned) ==
    IF returned THEN saved
    ELSE [saved EXCEPT !.status = "pending", !.completed_at = NullTime]

\* the Transaction after _handle_successful_payment: the handlers read the
\* object, write to Firestore and catch every exception; the stored row is
\* the object as it was saved, whatever the sync returned
AfterSync(saved, returned) == saved

\* the completion sync (_handle_successful_payment and its inline twins):
\* update_user_payment_status and record_payment_in_firebase, status completed
Synced(counts, transaction_id) ==
    [counts EXCEPT ![transaction_id] = @ + 1]

\* the endpoints of the providers that requests are sent to
ProviderEndpoints ==
    {"oauth", "stkpush", "stkpushquery", "payments", "verify_by_reference"}

\* the counts after the requests of a call have been sent
Requested(counts, endpoints) ==
    [e \in DOMAIN counts |->
        counts[e] + Cardinality({i \in DOMAIN endpoints : endpoints[i] = e})]

\* a response: the view that returned it, its HTTP status, what it carries
Response(view, status_code, body) ==
    [view |-> view, status_code |-> status_code, body |-> body]

\* history of the stored statuses
Remember(table) ==
    ever_completed \cup {id \in DOMAIN table : table[id].status = "completed"}

----------------------------------------------------------------------------
(* Inputs *)

\* the authenticated users of the API
Users == {"u1"}

\* the empty string, as a phone number
NoPhone == << >>
\* 0712345678, and a number _format_phone_number rejects
Phones ==
    {<<"0", "7", "1", "2", "3", "4", "5", "6", "7", "8">>,
     <<"1", "2", "3", "4", "5">>}
\* the numbers typed into the form
FormPhones == {<<"0", "7", "1", "2", "3", "4", "5", "6", "7", "8">>, NoPhone}

\* amount and currency of the initiation requests: 10 USD, its worth in KES,
\* half a dollar, 10001 USD, and 10 KES
InitiationAmounts ==
    {<<1000, "USD">>, <<147500, "kes">>, <<50, "USD">>, <<1000100, "USD">>,
     <<1000, "KES">>}

\* a query without original_usd_amount
NoOriginalAmount == -1

\* user, amount, currency and original_usd_amount of the form requests:
\* 10 USD, for another user half a dollar, and 1475 KES sent along with an
\* original_usd_amount of 11 USD
FormPayloads ==
    {<<"u1", 1000, "USD", NoOriginalAmount>>, <<"u2", 50, "USD", NoOriginalAmount>>,
     <<"u1", 147500, "KES", 1100>>}

IssuedCheckoutIds == {CheckoutId(n) : n \in 1..next_checkout}

Unparsable == [shape |-> "unparsable"]

\* CallbackMetadata.Item of a paid push: amount, receipt number and payer
SuccessItems ==
    <<[Name |-> "Amount", Value |-> "1475.00"],
      [Name |-> "MpesaReceiptNumber", Value |-> "ABC123"],
      [Name |-> "PhoneNumber", Value |-> "254712345678"]>>

\* The callback bodies delivered: one that is no JSON object, and for each
\* checkout-request id a success carrying a receipt item and a cancellation
MpesaBodies ==
    {[shape |-> "malformed"]} \cup
    [shape : {"dict"},
     CheckoutRequestID : IssuedCheckoutIds \cup {UnknownCheckoutId},
     ResultCode : {JInt(0)},
     Item : {SuccessItems}] \cup
    [shape : {"dict"},
     CheckoutRequestID : IssuedCheckoutIds \cup {UnknownCheckoutId},
     ResultCode : {JInt(1032)},
     Item : {<< >>}]

\* What the status query is answered: the request raised, or HTTP 200 with a
\* result code
StkQueryResponses ==
    {[token_raised |-> TRUE, raised |-> FALSE, status_code |-> 0,
      ResultCode |-> JNull],
     [token_raised |-> FALSE, raised |-> TRUE, status_code |-> 0,
      ResultCode |-> JNull],
     [token_raised |-> FALSE, raised |-> FALSE, status_code |-> 500,
      ResultCode |-> JMissing]} \cup
    [token_raised : {FALSE}, raised : {FALSE}, status_code : {200},
     ResultCode : {JInt(0), JInt(1032), JInt(2001)}]

UnknownTxRef == "bematore_unknown"

\* The webhook bodies delivered: one whose data member is null, and for each
\* reference a success carrying the provider's reference and a failure
FlutterwaveBodies ==
    {[shape |-> "malformed"]} \cup
    [shape : {"dict"}, tx_ref : TxIds \cup {UnknownTxRef},
     status : {JStr("successful")}, flw_ref : {"FLW-1"}] \cup
    [shape : {"dict"}, tx_ref : TxIds \cup {UnknownTxRef},
     status : {JStr("failed")}, flw_ref : {Null}]

\* The verif-hash header sent with a body: absent, the digest under the
\* configured secret, or a digest under another key
Signatures(body) ==
    {EmptySignature,
     HmacHexdigest("whsec", JsonDumps(body)),
     HmacHexdigest("guess", JsonDumps(body))}

\* What verify_by_reference is answered
VerifyResponses ==
    {[raised |-> TRUE, status_code |-> 0, status |-> Null,
      data_status |-> JMissing, flw_ref |-> Null],
     [raised |-> FALSE, status_code |-> 400, status |-> "error",
      data_status |-> JMissing, flw_ref |-> Null]} \cup
    [raised : {FALSE}, status_code : {200}, status : {"success"},
     data_status : {JStr("successful")}, flw_ref : {"FLW-1"}] \cup
    [raised : {FALSE}, status_code : {200}, status : {"success"},
     data_status : {JStr("failed"), JStr("pending")}, flw_ref : {Null}]

----------------------------------------------------------------------------
(* MpesaCallbackView.post: callbacks/views.py *)

\* the two answers of the view: the acknowledgement, and the answer of the
\* outer except
MpesaCallbackProcessed ==
    Response("MpesaCallbackView.post", 200,
             [ResultCode |-> 0, ResultDesc |-> "Callback processed successfully"])
MpesaCallbackFailed ==
    Response("MpesaCallbackView.post", 200,
             [ResultCode |-> 1, ResultDesc |-> "Callback processing failed"])

\* json.loads, then CallbackLog.objects.create
MpesaCallbackView_post_log(w, body) ==
    /\ Accept(w)
    /\ IF body = Unparsable
       THEN \* json.loads raises: the outer except answers
            /\ http_response' = MpesaCallbackFailed
            /\ UNCHANGED <<callback_logs, workers>>
       ELSE /\ callback_logs' = Append(callback_logs,
                                       CallbackLog("mpesa", "unknown", body, now))
            /\ workers' = [workers EXCEPT ![w] =
                    [pc |-> "process", view |-> "MpesaCallbackView",
                     callback_record |-> Len(callback_logs) + 1,
                     callback_data |-> body]]
            /\ UNCHANGED http_response
    /\ UNCHANGED <<payment_transactions, firebase_completed, firebase_result, ever_completed,
                   next_checkout, WEBHOOK_SECRET, provider_requests>>
    /\ Clock

\* process_callback, PaymentTransaction.objects.get, callback_record.save
MpesaCallbackView_post_process(w) ==
    /\ workers[w].pc = "process"
    /\ workers[w].view = "MpesaCallbackView"
    /\ LET result == process_callback(workers[w].callback_data)
           rec == workers[w].callback_record
           found == ByCheckoutRequestId(payment_transactions,
                                        result.checkout_request_id)
       IN IF result = NoneResult
          THEN \* result.get on None raises: the outer except answers
               /\ workers' = [workers EXCEPT ![w] = Idle]
               /\ http_response' = MpesaCallbackFailed
               /\ UNCHANGED callback_logs
          ELSE IF Cardinality(found) = 1
          THEN LET transaction == payment_transactions[CHOOSE id \in found : TRUE] IN
               /\ callback_logs' = [callback_logs EXCEPT
                        ![rec].transaction_id = transaction.transaction_id,
                        ![rec].success = TRUE]
               /\ workers' = [workers EXCEPT ![w] =
                        [pc |-> "save", view |-> "MpesaCallbackView",
                         callback_record |-> rec,
                         callback_data |-> workers[w].callback_data,
                         transaction |-> transaction]]
               /\ UNCHANGED http_response
          ELSE IF found = {}
          THEN \* PaymentTransaction.DoesNotExist
               /\ callback_logs' = [callback_logs EXCEPT
                        ![rec].success = FALSE,
                        ![rec].error_message = "Transaction not found"]
               /\ workers' = [workers EXCEPT ![w] = Idle]
               /\ http_response' = MpesaCallbackProcessed
          ELSE \* MultipleObjectsReturned: the outer except answers
               /\ workers' = [workers EXCEPT ![w] = Idle]
               /\ http_response' = MpesaCallbackFailed
               /\ UNCHANGED callback_logs
    /\ UNCHANGED <<payment_transactions, firebase_completed, firebase_result, ever_completed,
                   next_checkout, requests, WEBHOOK_SECRET, provider_requests>>
    /\ Clock

\* the object saved when the receipt of the callback is dropped
MpesaCallbackUpdate_without_receipt(transaction, result) ==
    [transaction EXCEPT !.status = result.status]

\* the object the callback view saves: status and receipt from the callback
MpesaCallbackUpdate(transaction, result) ==
    [transaction EXCEPT
        !.status = result.status,
        !.mpesa_receipt = IF result.mpesa_receipt \notin {Null, ""}
                          THEN result.mpesa_receipt ELSE @]

\* a test that forgets the status the object had when it was read
CallbackHandlesSuccess_any_completed(status, old_status) ==
    status = "completed"

\* whether the callback views hand the saved object to the completion sync
CallbackHandlesSuccess(status, old_status) ==
    status = "completed" /\ old_status # "completed"

\* transaction.save, then _handle_successful_payment
MpesaCallbackView_post_save(w) ==
    /\ workers[w].pc = "save"
    /\ workers[w].view = "MpesaCallbackView"
    /\ LET result == process_callback(workers[w].callback_data)
           old_status == workers[w].transaction.status
           saved == save(MpesaCallbackUpdate(workers[w].transaction, result), now)
       IN IF CallbackHandlesSuccess(saved.status, old_status)
          THEN \E firestore_available \in BOOLEAN :
                 /\ payment_transactions' =
                       Stored(payment_transactions,
                              AfterSync(saved, firestore_available))
                 /\ firebase_completed' = Synced(firebase_completed, saved.transaction_id)
                 /\ firebase_result' = FirebaseReturns(firestore_available)
          ELSE /\ payment_transactions' = Stored(payment_transactions, saved)
               /\ UNCHANGED <<firebase_completed, firebase_result>>
    /\ ever_completed' = Remember(payment_transactions')
    /\ workers' = [workers EXCEPT ![w] = Idle]
    /\ http_response' = MpesaCallbackProcessed
    /\ UNCHANGED <<callback_logs, next_checkout, requests, WEBHOOK_SECRET,
                   provider_requests>>
    /\ Clock

----------------------------------------------------------------------------
(* Initiation: payments/views.py, and the gateways' initiate calls *)

\* What the push-payment provider answers to an STK push: the request raised
\* (network error, timeout), it was rejected, or it was accepted, and then the
\* provider issues the next checkout-request id
StkPushResponses ==
    {[token_raised |-> TRUE, raised |-> FALSE, status_code |-> 0,
      ResponseCode |-> Null, CheckoutRequestID |-> Null],
     [token_raised |-> FALSE, raised |-> TRUE, status_code |-> 0,
      ResponseCode |-> Null, CheckoutRequestID |-> Null],
     [token_raised |-> FALSE, raised |-> FALSE, status_code |-> 400,
      ResponseCode |-> "1", CheckoutRequestID |-> Null]} \cup
    {[token_raised |-> FALSE, raised |-> FALSE, status_code |-> 200,
      ResponseCode |-> "0", CheckoutRequestID |-> CheckoutId(next_checkout + 1)]}

\* error_messages.get(str(error_code), default_message)
_map_error_code(error_code, default_message) ==
    CASE error_code = "1" -> "Invalid phone number or account details"
      [] error_code = "2" -> "Invalid amount. Minimum is KES 1"
      [] error_code = "4" -> "Service temporarily unavailable"
      [] error_code = "26" -> "Phone number not registered for M-Pesa"
      [] error_code = "1001" -> "Invalid phone number format"
      [] error_code = "1032" -> "Request cancelled by user"
      [] error_code = "2001" -> "Transaction is being processed"
      [] OTHER -> default_message

\* what initiate_stk_push does before its push request: the token request,
\* the phone number brought to form, the amount checked (amount in
\* hundredths of a KES); the exception raised on the way, if any
initiate_stk_push_raises(phone_number, amount, response) ==
    IF response.token_raised
    THEN Raised("M-Pesa authentication failed")
    ELSE IF _format_phone_number(phone_number).raised
    THEN _format_phone_number(phone_number)
    ELSE IF amount < 100
    THEN Raised("Amount must be at least KES 1")
    ELSE [raised |-> FALSE]

\* the requests of an initiate_stk_push that sends its push a second time
\* when the first one raised
initiate_stk_push_requests_retrying(phone_number, amount, response) ==
    IF initiate_stk_push_raises(phone_number, amount, response).raised
    THEN <<"oauth">>
    ELSE IF response.raised THEN <<"oauth", "stkpush", "stkpush">>
    ELSE <<"oauth", "stkpush">>

\* the requests initiate_stk_push sends, in order: the token request comes
\* first, the push request once nothing has raised
initiate_stk_push_requests(phone_number, amount, response) ==
    IF initiate_stk_push_raises(phone_number, amount, response).raised
    THEN <<"oauth">> ELSE <<"oauth", "stkpush">>

initiate_stk_push(phone_number, amount, response) ==
    IF initiate_stk_push_raises(phone_number, amount, response).raised
    THEN [success |-> FALSE, checkout_request_id |-> Null,
          error_message |->
              initiate_stk_push_raises(phone_number, amount, response).message]
    ELSE IF response.raised
    THEN [success |-> FALSE, checkout_request_id |-> Null,
          error_message |-> "Network error occurred. Please try again."]
    ELSE IF response.status_code = 200 /\ response.ResponseCode = "0"
    THEN [success |-> TRUE, checkout_request_id |-> response.CheckoutRequestID,
          error_message |-> Missing]
    ELSE [success |-> FALSE, checkout_request_id |-> Null,
          error_message |-> _map_error_code(response.ResponseCode, "STK Push failed")]

\* What the card provider answers to the creation of a hosted payment
CardPaymentResponses ==
    {[raised |-> TRUE, status_code |-> 0, status |-> Null],
     [raised |-> FALSE, status_code |-> 400, status |-> "error"],
     [raised |-> FALSE, status_code |-> 200, status |-> "success"]}

initiate_card_payment(response, tx_ref) ==
    IF response.raised
    THEN [success |-> FALSE, tx_ref |-> Null,
          error_message |-> "Network error occurred. Please try again."]
    ELSE IF response.status_code = 200 /\ response.status = "success"
    THEN [success |-> TRUE, tx_ref |-> tx_ref, error_message |-> Missing]
    ELSE [success |-> FALSE, tx_ref |-> Null,
          error_message |-> "Payment initiation failed"]

\* the request initiate_card_payment sends
initiate_card_payment_requests == <<"payments">>

\* dict.get(key, default) on a result
Get(value, default) == IF value = Missing THEN default ELSE value

\* result.get('message'): the member of a gateway's result under that key
ResultMessage(result) ==
    IF "message" \in DOMAIN result THEN result.message ELSE Missing

\* a creation that writes the defaults over a row that exists
get_or_create_overwriting(table, transaction_id, defaults, clock) ==
    Stored(table, save(defaults, clock))

\* objects.get_or_create(transaction_id=..., defaults=...): the table after it
get_or_create(table, transaction_id, defaults, clock) ==
    IF transaction_id \in DOMAIN table THEN table
    ELSE Stored(table, save(defaults, clock))

\* PaymentFormView.get: original_usd_amount stored as it came when the query
\* carries one, otherwise the amount brought to USD for storage and to the
\* display currency, get_or_create under the
\* caller's transaction id, then the page, or the redirect to the status page
\* when the row existed and is no longer pending (the page's
\* record_payment_in_firebase of the row as it stands is no completion sync
\* and is not counted)
PaymentFormView_get(w, transaction_id, user_uid, amount, currency, original_usd_amount) ==
    /\ Accept(w)
    /\ LET given == original_usd_amount # NoOriginalAmount
           usd == Upper(currency) = "USD"
           storage_amount == IF given THEN original_usd_amount
                             ELSE IF usd THEN amount
                             ELSE convert_to_usd(amount, currency)
           display_amount == IF ~given /\ usd THEN convert_from_usd(amount, "KES")
                             ELSE amount
           display_currency == IF ~given /\ usd THEN "KES" ELSE currency
           defaults == [PaymentTransaction(transaction_id, user_uid, storage_amount,
                                           "", NoPhone)
                            EXCEPT !.metadata = Metadata(display_amount,
                                                         display_currency)]
           created == transaction_id \notin DOMAIN payment_transactions
       IN /\ payment_transactions' =
                get_or_create(payment_transactions, transaction_id, defaults, now)
          /\ http_response' =
                IF ~created /\ payment_transactions'[transaction_id].status # "pending"
                THEN Response("PaymentFormView.get", 302,
                              [to |-> "payments:payment_status"])
                ELSE Response("PaymentFormView.get", 200,
                              [user_uid |-> user_uid,
                               storage_amount_usd |-> storage_amount])
    /\ UNCHANGED <<callback_logs, workers, firebase_completed, firebase_result,
                   ever_completed, next_checkout, WEBHOOK_SECRET,
                   provider_requests>>
    /\ Clock

\* the redirects of PaymentFormView.post, with the message flashed
FormRedirect(to, message) ==
    Response("PaymentFormView.post", 302, [to |-> to, message |-> message])

\* PaymentFormView.post up to the provider call: get_object_or_404, then
\* _process_mpesa_payment or _process_flutterwave_payment
PaymentFormView_post(w, transaction_id, payment_method, phone_number) ==
    /\ Accept(w)
    /\ IF transaction_id \notin DOMAIN payment_transactions
       THEN \* Http404, answered by the except branch
            /\ http_response' =
                    FormRedirect("payments:payment_form",
                                 "An error occurred while processing your payment")
            /\ UNCHANGED <<payment_transactions, workers>>
       ELSE LET transaction == payment_transactions[transaction_id] IN
            IF payment_method = "mpesa"
            THEN IF phone_number = NoPhone
                 THEN /\ http_response' =
                            FormRedirect("payments:payment_form",
                                         "Phone number is required for M-Pesa payment")
                      /\ UNCHANGED <<payment_transactions, workers>>
                 ELSE LET saved == save([transaction EXCEPT
                                            !.payment_method = "mpesa",
                                            !.phone_number = phone_number], now)
                      IN /\ payment_transactions' = Stored(payment_transactions, saved)
                         /\ workers' = [workers EXCEPT ![w] =
                                [pc |-> "stk_push", view |-> "PaymentFormView",
                                 transaction |-> saved]]
                         /\ UNCHANGED http_response
            ELSE IF payment_method = "flutterwave"
            THEN \* the save, then FlutterwaveService has no create_payment:
                 \* AttributeError, answered by the except branch
                 /\ payment_transactions' =
                        Stored(payment_transactions,
                               save([transaction EXCEPT !.payment_method = "flutterwave"],
                                    now))
                 /\ http_response' =
                        FormRedirect("/payment",
                                     "An error occurred while processing your payment")
                 /\ UNCHANGED workers
            ELSE /\ http_response' =
                        FormRedirect("payments:payment_form",
                                     "Invalid payment method selected")
                 /\ UNCHANGED <<payment_transactions, workers>>
    /\ ever_completed' = Remember(payment_transactions')
    /\ UNCHANGED <<callback_logs, firebase_completed, firebase_result, next_checkout,
                   WEBHOOK_SECRET, provider_requests>>
    /\ Clock

\* _process_mpesa_payment from the provider's answers on: the amount in whole
\* KES, initiate_stk_push, then the checkout-request id or the failure saved
PaymentFormView_post_stk_push(w, response) ==
    /\ workers[w].pc = "stk_push"
    /\ workers[w].view = "PaymentFormView"
    /\ LET transaction == workers[w].transaction
           kes_amount == get_mpesa_amount(transaction.amount)
           amount == (kes_amount \div 100) * 100
           result == initiate_stk_push(transaction.phone_number, amount, response)
           saved == IF result.success
                    THEN save([transaction EXCEPT
                                 !.mpesa_checkout_request_id = result.checkout_request_id],
                              now)
                    ELSE save([transaction EXCEPT
                                 !.status = "failed",
                                 !.failure_reason =
                                    Get(ResultMessage(result),
                                        "M-Pesa payment initiation failed")],
                              now)
       IN /\ payment_transactions' = Stored(payment_transactions, saved)
          /\ next_checkout' = IF result.success THEN next_checkout + 1 ELSE next_checkout
          /\ provider_requests' =
                Requested(provider_requests,
                          initiate_stk_push_requests(transaction.phone_number,
                                                     amount, response))
          /\ http_response' =
                IF result.success
                THEN FormRedirect("payments:payment_status", "")
                ELSE FormRedirect("payments:payment_form",
                                  "M-Pesa payment failed: "
                                    \o Get(ResultMessage(result), "None"))
    /\ ever_completed' = Remember(payment_transactions')
    /\ workers' = [workers EXCEPT ![w] = Idle]
    /\ UNCHANGED <<callback_logs, firebase_completed, firebase_result, requests, WEBHOOK_SECRET>>
    /\ Clock

\* the answers of PaymentInitiationView.post that carry an error
InitiationError(status_code, error, transaction_id) ==
    Response("PaymentInitiationView.post", status_code,
             [error |-> error, transaction_id |-> transaction_id])

\* PaymentInitiationView.post up to the provider call: the amount brought to
\* USD and held against the minimum and the maximum, objects.create under a
\* fresh uuid, the metadata set on the object, then _process_payment
PaymentInitiationView_post(w, transaction_id, user_uid, amount, currency, payment_method, phone_number) ==
    /\ Accept(w)
    /\ LET display_currency == Upper(currency)
           usd_amount == normalize_amount_for_storage(amount, display_currency)
           created == save(PaymentTransaction(transaction_id, user_uid, usd_amount,
                                              payment_method, phone_number), now)
           payment_transaction ==
               [created EXCEPT !.metadata = Metadata(amount, display_currency)]
       IN IF usd_amount < MINIMUM_AMOUNT
          THEN /\ http_response' =
                    InitiationError(400, "Minimum amount is $1.00 USD", Missing)
               /\ UNCHANGED <<payment_transactions, workers>>
          ELSE IF usd_amount > MAXIMUM_AMOUNT
          THEN /\ http_response' =
                    InitiationError(400, "Maximum amount is $10000.00 USD", Missing)
               /\ UNCHANGED <<payment_transactions, workers>>
          ELSE IF payment_method \in {"mpesa", "flutterwave"}
          THEN /\ transaction_id \notin DOMAIN payment_transactions
               /\ payment_transactions' = Stored(payment_transactions, created)
               /\ workers' = [workers EXCEPT ![w] =
                      [pc |-> "process_payment", view |-> "PaymentInitiationView",
                       transaction |-> payment_transaction]]
               /\ UNCHANGED http_response
          ELSE \* Unsupported payment method: no provider call
               /\ transaction_id \notin DOMAIN payment_transactions
               /\ payment_transactions' =
                      Stored(payment_transactions,
                             save([payment_transaction EXCEPT
                                     !.status = "failed",
                                     !.failure_reason =
                                        "Unsupported payment method: "
                                            \o payment_method],
                                  now))
               /\ http_response' =
                      InitiationError(400,
                                      "Unsupported payment method: " \o payment_method,
                                      transaction_id)
               /\ UNCHANGED workers
    /\ UNCHANGED <<callback_logs, firebase_completed, firebase_result, ever_completed,
                   next_checkout, WEBHOOK_SECRET, provider_requests>>
    /\ Clock

\* the rest of PaymentInitiationView.post, from the provider's answers on:
\* _process_payment's gateway call, then
\* _update_transaction_with_provider_data, or the transition to failed
PaymentInitiationView_post_result(w, response) ==
    /\ workers[w].pc = "process_payment"
    /\ workers[w].view = "PaymentInitiationView"
    /\ LET transaction == workers[w].transaction
           mpesa == transaction.payment_method = "mpesa"
           kes_amount == get_mpesa_amount(transaction.amount)
           result == IF mpesa
                     THEN initiate_stk_push(transaction.phone_number, kes_amount,
                                            response)
                     ELSE initiate_card_payment(response, transaction.transaction_id)
           saved == IF result.success
                    THEN IF mpesa
                         THEN save([transaction EXCEPT
                                      !.mpesa_checkout_request_id =
                                            result.checkout_request_id], now)
                         ELSE save([transaction EXCEPT
                                      !.flutterwave_tx_ref = result.tx_ref], now)
                    ELSE save([transaction EXCEPT
                                 !.status = "failed",
                                 !.failure_reason =
                                    Get(result.error_message, "Payment initiation failed")],
                              now)
       IN /\ response \in (IF mpesa THEN StkPushResponses ELSE CardPaymentResponses)
          /\ payment_transactions' = Stored(payment_transactions, saved)
          /\ next_checkout' = IF mpesa /\ result.success
                              THEN next_checkout + 1 ELSE next_checkout
          /\ provider_requests' =
                Requested(provider_requests,
                          IF mpesa
                          THEN initiate_stk_push_requests(transaction.phone_number,
                                                          kes_amount, response)
                          ELSE initiate_card_payment_requests)
          /\ http_response' =
                IF result.success
                THEN Response("PaymentInitiationView.post", 201,
                              [success |-> TRUE,
                               transaction_id |-> transaction.transaction_id])
                ELSE InitiationError(400,
                                     Get(result.error_message,
                                         "Payment initiation failed"),
                                     transaction.transaction_id)
    /\ ever_completed' = Remember(payment_transactions')
    /\ workers' = [workers EXCEPT ![w] = Idle]
    /\ UNCHANGED <<callback_logs, firebase_completed, firebase_result, requests, WEBHOOK_SECRET>>
    /\ Clock

----------------------------------------------------------------------------
(* FlutterwaveWebhookView.post: callbacks/views.py *)

\* webhook_data.get('data', {}).get('tx_ref', 'unknown')
LoggedTxRef(webhook_data) ==
    IF webhook_data.tx_ref = Missing THEN "unknown" ELSE webhook_data.tx_ref

\* json.loads, the header, then CallbackLog.objects.create; a body whose data
\* member has no get raises before the create, and so does a null tx_ref
FlutterwaveWebhookView_post_log(w, body, signature) ==
    /\ Accept(w)
    /\ IF body = Unparsable \/ body.shape # "dict" \/ LoggedTxRef(body) = Null
       THEN /\ http_response' = Response("FlutterwaveWebhookView.post", 500, "")
            /\ UNCHANGED <<callback_logs, workers>>
       ELSE /\ callback_logs' = Append(callback_logs,
                    CallbackLog("flutterwave", LoggedTxRef(body), body, now))
            /\ workers' = [workers EXCEPT ![w] =
                    [pc |-> "process", view |-> "FlutterwaveWebhookView",
                     callback_record |-> Len(callback_logs) + 1,
                     webhook_data |-> body, signature |-> signature]]
            /\ UNCHANGED http_response
    /\ UNCHANGED <<payment_transactions, firebase_completed, firebase_result, ever_completed,
                   next_checkout, WEBHOOK_SECRET, provider_requests>>
    /\ Clock

\* process_webhook, PaymentTransaction.objects.get, callback_record.save
FlutterwaveWebhookView_post_process(w) ==
    /\ workers[w].pc = "process"
    /\ workers[w].view = "FlutterwaveWebhookView"
    /\ LET result == process_webhook(workers[w].webhook_data, workers[w].signature,
                                     WEBHOOK_SECRET)
           rec == workers[w].callback_record
           found == ByTransactionId(payment_transactions, result.tx_ref)
       IN IF ~result.success
          THEN /\ callback_logs' = [callback_logs EXCEPT
                        ![rec].success = FALSE,
                        ![rec].error_message = result.error_message]
               /\ workers' = [workers EXCEPT ![w] = Idle]
               /\ http_response' = Response("FlutterwaveWebhookView.post", 200, "")
          ELSE IF found # {}
          THEN /\ callback_logs' = [callback_logs EXCEPT ![rec].success = TRUE]
               /\ workers' = [workers EXCEPT ![w] =
                        [pc |-> "save", view |-> "FlutterwaveWebhookView",
                         callback_record |-> rec,
                         webhook_data |-> workers[w].webhook_data,
                         signature |-> workers[w].signature,
                         transaction |->
                            payment_transactions[CHOOSE id \in found : TRUE]]]
               /\ UNCHANGED http_response
          ELSE \* PaymentTransaction.DoesNotExist
               /\ callback_logs' = [callback_logs EXCEPT
                        ![rec].success = FALSE,
                        ![rec].error_message = "Transaction not found"]
               /\ workers' = [workers EXCEPT ![w] = Idle]
               /\ http_response' = Response("FlutterwaveWebhookView.post", 200, "")
    /\ UNCHANGED <<payment_transactions, firebase_completed, firebase_result, ever_completed,
                   next_checkout, requests, WEBHOOK_SECRET, provider_requests>>
    /\ Clock

\* a card update that also takes over the currency the provider charged in
FlutterwaveUpdate_with_charged_currency(transaction, result) ==
    [transaction EXCEPT !.status = result.status, !.currency = "KES"]

\* the object a card result updates: status, and the reference when one came
\* (the webhook view, the poll and the redirect callback share the shape)
FlutterwaveUpdate(transaction, result) ==
    [transaction EXCEPT
        !.status = result.status,
        !.flutterwave_flw_ref = IF result.flw_ref \notin {Null, ""}
                                THEN result.flw_ref ELSE @]

\* transaction.save, then _handle_successful_flutterwave_payment
FlutterwaveWebhookView_post_save(w) ==
    /\ workers[w].pc = "save"
    /\ workers[w].view = "FlutterwaveWebhookView"
    /\ LET result == process_webhook(workers[w].webhook_data, workers[w].signature,
                                     WEBHOOK_SECRET)
           old_status == workers[w].transaction.status
           saved == save(FlutterwaveUpdate(workers[w].transaction, result), now)
       IN IF CallbackHandlesSuccess(saved.status, old_status)
          THEN \E firestore_available \in BOOLEAN :
                 /\ payment_transactions' =
                       Stored(payment_transactions,
                              AfterSync(saved, firestore_available))
                 /\ firebase_completed' = Synced(firebase_completed, saved.transaction_id)
                 /\ firebase_result' = FirebaseReturns(firestore_available)
          ELSE /\ payment_transactions' = Stored(payment_transactions, saved)
               /\ UNCHANGED <<firebase_completed, firebase_result>>
    /\ ever_completed' = Remember(payment_transactions')
    /\ workers' = [workers EXCEPT ![w] = Idle]
    /\ http_response' = Response("FlutterwaveWebhookView.post", 200, "")
    /\ UNCHANGED <<callback_logs, next_checkout, requests, WEBHOOK_SECRET,
                   provider_requests>>
    /\ Clock

----------------------------------------------------------------------------
(* The status poll: PaymentStatusAPIView.get, payments/views.py (the twin   *)
(* simple_status_check is routed by no URL pattern and serves no request)   *)

\* the answer of the poll: the status of the row as refresh_from_db reads it
StatusResponse(transaction) ==
    Response("PaymentStatusAPIView.get", 200, [status |-> transaction.status])

\* whether the poll asks a provider: the transaction is pending, and it is a
\* mobile-money one with a checkout-request id, or a card one
QueriesProvider(transaction) ==
    /\ is_pending(transaction)
    /\ \/ /\ transaction.payment_method = "mpesa"
          /\ transaction.mpesa_checkout_request_id # ""
       \/ transaction.payment_method = "flutterwave"

\* objects.get and the is_pending test; a pending transaction goes on to the
\* provider call its payment method selects
PaymentStatusAPIView_get(w, transaction_id) ==
    /\ Accept(w)
    /\ IF transaction_id \in DOMAIN payment_transactions
       THEN LET transaction == payment_transactions[transaction_id] IN
            IF QueriesProvider(transaction)
            THEN /\ workers' = [workers EXCEPT ![w] =
                        [pc |-> "provider", view |-> "PaymentStatusAPIView",
                         transaction |-> transaction]]
                 /\ UNCHANGED http_response
            ELSE /\ http_response' = StatusResponse(transaction)
                 /\ UNCHANGED workers
       ELSE \* DoesNotExist
            /\ http_response' =
                    Response("PaymentStatusAPIView.get", 404,
                             [error |-> "Payment transaction not found"])
            /\ UNCHANGED workers
    /\ UNCHANGED <<payment_transactions, callback_logs, firebase_completed, firebase_result,
                   ever_completed, next_checkout, WEBHOOK_SECRET,
                   provider_requests>>
    /\ Clock

\* a poll that reports and never writes
PollWrites_never(result, transaction) == FALSE

\* whether a poll writes the status its provider reported
PollWrites(result, transaction) ==
    result.success /\ result.status # transaction.status

\* the object a poll saves: the status, and for a card the reference
PollUpdate(transaction, result) ==
    IF transaction.payment_method = "mpesa"
    THEN [transaction EXCEPT !.status = result.status]
    ELSE FlutterwaveUpdate(transaction, result)

\* the request verify_payment sends
verify_payment_requests == <<"verify_by_reference">>

\* _update_payment_status from the provider's answers on: the save when the
\* status differs, and the completion sync; then the answer
PaymentStatusAPIView_update_payment_status(w, response) ==
    /\ workers[w].pc = "provider"
    /\ workers[w].view = "PaymentStatusAPIView"
    /\ LET transaction == workers[w].transaction
           mpesa == transaction.payment_method = "mpesa"
           result == IF mpesa THEN query_stk_status(response)
                     ELSE verify_payment(response)
           saved == save(PollUpdate(transaction, result), now)
       IN /\ response \in (IF mpesa THEN StkQueryResponses ELSE VerifyResponses)
          /\ IF PollWrites(result, transaction)
             THEN IF result.status = "completed"
                  THEN \E firestore_available \in BOOLEAN :
                        /\ payment_transactions' =
                                Stored(payment_transactions,
                                       AfterSync(saved, firestore_available))
                        /\ firebase_completed' =
                                Synced(firebase_completed, saved.transaction_id)
                        /\ firebase_result' = FirebaseReturns(firestore_available)
                  ELSE /\ payment_transactions' = Stored(payment_transactions, saved)
                       /\ UNCHANGED <<firebase_completed, firebase_result>>
             ELSE UNCHANGED <<payment_transactions, firebase_completed, firebase_result>>
          /\ provider_requests' =
                Requested(provider_requests,
                          IF mpesa THEN query_stk_status_requests(response)
                          ELSE verify_payment_requests)
          /\ http_response' =
                StatusResponse(payment_transactions'[transaction.transaction_id])
    /\ ever_completed' = Remember(payment_transactions')
    /\ workers' = [workers EXCEPT ![w] = Idle]
    /\ UNCHANGED <<callback_logs, next_checkout, requests, WEBHOOK_SECRET>>
    /\ Clock

----------------------------------------------------------------------------
(* PaymentCallbackView.get: the redirect from the card provider *)

\* the redirects of the view, all to FLUTTER_CONFIG['FAILURE_URL']
CallbackRedirect(query) ==
    Response("PaymentCallbackView.get", 302,
             [to |-> "FAILURE_URL", query |-> query])

PaymentCallbackView_get(w, provider, transaction_id) ==
    /\ Accept(w)
    /\ IF transaction_id \notin DOMAIN payment_transactions
       THEN /\ http_response' = CallbackRedirect("error=transaction_not_found")
            /\ UNCHANGED workers
       ELSE IF provider = "flutterwave"
       THEN /\ workers' = [workers EXCEPT ![w] =
                    [pc |-> "provider", view |-> "PaymentCallbackView",
                     transaction |-> payment_transactions[transaction_id]]]
            /\ UNCHANGED http_response
       ELSE /\ http_response' = CallbackRedirect("transaction_id")
            /\ UNCHANGED workers
    /\ UNCHANGED <<payment_transactions, callback_logs, firebase_completed, firebase_result,
                   ever_completed, next_checkout, WEBHOOK_SECRET,
                   provider_requests>>
    /\ Clock

\* the object the redirect callback saves: completed with the reference when
\* the verification says completed, failed with a reason in every other case
PaymentCallbackUpdate(transaction, result) ==
    IF result.success /\ result.status = "completed"
    THEN [FlutterwaveUpdate(transaction, result) EXCEPT !.status = "completed"]
    ELSE [transaction EXCEPT
            !.status = "failed",
            !.failure_reason = Get(result.error_message,
                                   "Payment verification failed")]

\* from the answer of verify_payment on.  The completed branch saves and then
\* calls PaymentStatusView()._handle_successful_payment, a method that class
\* does not have: AttributeError, answered by the except branch, no sync
PaymentCallbackView_get_verify(w, response) ==
    /\ workers[w].pc = "provider"
    /\ workers[w].view = "PaymentCallbackView"
    /\ response \in VerifyResponses
    /\ LET transaction == workers[w].transaction
           result == verify_payment(response)
           saved == save(PaymentCallbackUpdate(transaction, result), now)
       IN /\ payment_transactions' = Stored(payment_transactions, saved)
          /\ http_response' =
                IF result.success /\ result.status = "completed"
                THEN CallbackRedirect("error=callback_failed")
                ELSE CallbackRedirect("transaction_id")
    /\ provider_requests' = Requested(provider_requests, verify_payment_requests)
    /\ ever_completed' = Remember(payment_transactions')
    /\ workers' = [workers EXCEPT ![w] = Idle]
    /\ UNCHANGED <<callback_logs, firebase_completed, firebase_result, next_checkout,
                   requests, WEBHOOK_SECRET>>
    /\ Clock

----------------------------------------------------------------------------
(* The system *)

Init ==
    /\ payment_transactions = << >>
    /\ callback_logs = << >>
    /\ now = 1
    /\ workers = [w \in WorkerIds |-> Idle]
    /\ firebase_completed = [id \in TxIds |-> 0]
    /\ ever_completed = {}
    /\ next_checkout = 0
    /\ requests = 0
    /\ WEBHOOK_SECRET = "whsec"
    /\ provider_requests = [e \in ProviderEndpoints |-> 0]
    /\ http_response = Response("", 0, "")
    /\ firebase_result = NoSync

Next ==
    \/ \E w \in WorkerIds, id \in TxIds, f \in FormPayloads :
            PaymentFormView_get(w, id, f[1], f[2], f[3], f[4])
    \/ \E w \in WorkerIds, id \in TxIds, m \in {"mpesa", "flutterwave", ""},
          p \in FormPhones :
            PaymentFormView_post(w, id, m, p)
    \/ \E w \in WorkerIds, r \in StkPushResponses :
            PaymentFormView_post_stk_push(w, r)
    \/ \E w \in WorkerIds, id \in TxIds, u \in Users, a \in InitiationAmounts,
          m \in {"mpesa", "flutterwave", "paypal", ""}, p \in Phones :
            PaymentInitiationView_post(w, id, u, a[1], a[2], m, p)
    \/ \E w \in WorkerIds, r \in StkPushResponses \cup CardPaymentResponses :
            PaymentInitiationView_post_result(w, r)
    \/ \E w \in WorkerIds, b \in MpesaBodies \cup {Unparsable} :
            MpesaCallbackView_post_log(w, b)
    \/ \E w \in WorkerIds : MpesaCallbackView_post_process(w)
    \/ \E w \in WorkerIds : MpesaCallbackView_post_save(w)
    \/ \E w \in WorkerIds, b \in FlutterwaveBodies \cup {Unparsable} :
            \E sig \in Signatures(b) : FlutterwaveWebhookView_post_log(w, b, sig)
    \/ \E w \in WorkerIds : FlutterwaveWebhookView_post_process(w)
    \/ \E w \in WorkerIds : FlutterwaveWebhookView_post_save(w)
    \/ \E w \in WorkerIds, id \in TxIds \cup {UnknownTxRef} :
            PaymentStatusAPIView_get(w, id)
    \/ \E w \in WorkerIds, r \in StkQueryResponses \cup VerifyResponses :
            PaymentStatusAPIView_update_payment_status(w, r)
    \/ \E w \in WorkerIds, id \in TxIds \cup {UnknownTxRef},
          p \in {"flutterwave", "mpesa"} :
            PaymentCallbackView_get(w, p, id)
    \/ \E w \in WorkerIds, r \in VerifyResponses :
            PaymentCallbackView_get_verify(w, r)

Spec == Init /\ [][Next]_vars

----------------------------------------------------------------------------
(* The status mappings on their own: a worker holds one call of a gateway's *)
(* mapping, with the code a provider sent, and then what the call yielded   *)

\* result codes 0..MaxCode are sent, as JSON numbers and as JSON strings
MaxCode == 2100

\* what a callback or a status answer carries as ResultCode
ResultCodes ==
    {JInt(n) : n \in 0..MaxCode} \cup {JStr(IntToStr(n)) : n \in 0..MaxCode}
    \cup {JStr(""), JStr("0.0"), JStr("00"), JStr("success"), JNull, JMissing}

\* what a webhook or a verify answer carries as data.status
StatusStrings ==
    {JStr(s) : s \in {"successful", "completed", "pending", "failed",
                       "cancelled", "abandoned", "SUCCESSFUL", "Successful",
                       "Completed", "FAILED", "success", "succeeded", "paid",
                       "error", "unknown", "0", ""}}
    \cup {JNull, JMissing}

MapCalls ==
    [pc : {"call"}, gateway : {"mpesa"}, code : ResultCodes] \cup
    [pc : {"call"}, gateway : {"flutterwave"}, code : StatusStrings]

\* the call runs: transaction_status in MpesaService, payment_status in
\* FlutterwaveService
MapCall(w) ==
    /\ workers[w].pc = "call"
    /\ workers' = [workers EXCEPT ![w] =
            [pc |-> "return", gateway |-> @.gateway, code |-> @.code,
             status |-> IF @.gateway = "mpesa"
                        THEN transaction_status(@.code)
                        ELSE payment_status(@.code)]]
    /\ UNCHANGED <<payment_transactions, callback_logs, now, firebase_completed, firebase_result,
                   ever_completed, next_checkout, requests, WEBHOOK_SECRET,
                   provider_requests, http_response>>

InitMap ==
    /\ payment_transactions = << >>
    /\ callback_logs = << >>
    /\ now = 1
    /\ workers \in {[w \in WorkerIds |-> IF w = 1 THEN call ELSE Idle] :
                        call \in MapCalls}
    /\ firebase_completed = [id \in TxIds |-> 0]
    /\ ever_completed = {}
    /\ next_checkout = 0
    /\ requests = 0
    /\ WEBHOOK_SECRET = "whsec"
    /\ provider_requests = [e \in ProviderEndpoints |-> 0]
    /\ http_response = Response("", 0, "")
    /\ firebase_result = NoSync

NextMap == \E w \in WorkerIds : MapCall(w)

SpecMap == InitMap /\ [][NextMap]_vars

----------------------------------------------------------------------------
(* The converter on its own: a worker holds one call of convert_amount, and *)
(* then what the call returned                                              *)

\* the amounts converted, in hundredths
ConvertedAmounts == {1, 50, 100, 995, 1000, 14750, 1000000}

\* the currency codes sent: those of the rate table, in either case, and
\* codes the table does not hold
CurrencyCodes == {"USD", "KES", "EUR", "GBP", "usd", "kes", "XYZ", "xyz"}

ConvertCalls ==
    [pc : {"call"}, amount : ConvertedAmounts,
     from_currency : CurrencyCodes, to_currency : CurrencyCodes]

\* the call runs: convert_amount raises nothing (its except branch returns
\* the amount it was given) and returns an amount
ConvertCall(w) ==
    /\ workers[w].pc = "call"
    /\ workers' = [workers EXCEPT ![w] =
            [pc |-> "return", amount |-> @.amount,
             from_currency |-> @.from_currency, to_currency |-> @.to_currency,
             raised |-> FALSE,
             returned |-> convert_amount(@.amount, @.from_currency,
                                         @.to_currency)]]
    /\ UNCHANGED <<payment_transactions, callback_logs, now, firebase_completed, firebase_result,
                   ever_completed, next_checkout, requests, WEBHOOK_SECRET,
                   provider_requests, http_response>>

InitConvert ==
    /\ payment_transactions = << >>
    /\ callback_logs = << >>
    /\ now = 1
    /\ workers \in {[w \in WorkerIds |-> IF w = 1 THEN call ELSE Idle] :
                        call \in ConvertCalls}
    /\ firebase_completed = [id \in TxIds |-> 0]
    /\ ever_completed = {}
    /\ next_checkout = 0
    /\ requests = 0
    /\ WEBHOOK_SECRET = "whsec"
    /\ provider_requests = [e \in ProviderEndpoints |-> 0]
    /\ http_response = Response("", 0, "")
    /\ firebase_result = NoSync

NextConvert == \E w \in WorkerIds : ConvertCall(w)

SpecConvert == InitConvert /\ [][NextConvert]_vars

----------------------------------------------------------------------------
(* A round trip through the converter: a worker holds an amount in USD and *)
(* a currency of the rate table, converts the amount to the currency with  *)
(* convert_from_usd, and converts what it got back with convert_to_usd     *)

MaxRoundTrip == 400

\* the amounts taken round, in hundredths of a USD
RoundTripAmounts == (1 .. MaxRoundTrip) \cup {99999, 1000000}

\* self.exchange_rates.keys()
get_supported_currencies == DOMAIN EXCHANGE_RATES

\* convert_from_usd(X, C)
FromBase(w) ==
    /\ workers[w].pc = "base"
    /\ workers' = [workers EXCEPT ![w] =
            [pc |-> "display", amount |-> @.amount, currency |-> @.currency,
             display_amount |-> convert_from_usd(@.amount, @.currency)]]
    /\ UNCHANGED <<payment_transactions, callback_logs, now, firebase_completed, firebase_result,
                   ever_completed, next_checkout, requests, WEBHOOK_SECRET,
                   provider_requests, http_response>>

\* convert_to_usd(convert_from_usd(X, C), C)
ToBase(w) ==
    /\ workers[w].pc = "display"
    /\ workers' = [workers EXCEPT ![w] =
            [pc |-> "recovered", amount |-> @.amount, currency |-> @.currency,
             display_amount |-> @.display_amount,
             usd_amount |-> convert_to_usd(@.display_amount, @.currency)]]
    /\ UNCHANGED <<payment_transactions, callback_logs, now, firebase_completed, firebase_result,
                   ever_completed, next_checkout, requests, WEBHOOK_SECRET,
                   provider_requests, http_response>>

InitRoundTrip ==
    /\ payment_transactions = << >>
    /\ callback_logs = << >>
    /\ now = 1
    /\ workers \in {[w \in WorkerIds |->
                        IF w = 1 THEN [pc |-> "base", amount |-> x, currency |-> c]
                        ELSE Idle] :
                    x \in RoundTripAmounts, c \in get_supported_currencies}
    /\ firebase_completed = [id \in TxIds |-> 0]
    /\ ever_completed = {}
    /\ next_checkout = 0
    /\ requests = 0
    /\ WEBHOOK_SECRET = "whsec"
    /\ provider_requests = [e \in ProviderEndpoints |-> 0]
    /\ http_response = Response("", 0, "")
    /\ firebase_result = NoSync

NextRoundTrip ==
    \/ \E w \in WorkerIds : FromBase(w)
    \/ \E w \in WorkerIds : ToBase(w)

SpecRoundTrip == InitRoundTrip /\ [][NextRoundTrip]_vars

----------------------------------------------------------------------------
(* The amount of a push: a worker holds the stored amount of a Transaction *)
(* in USD and the path that initiates, API or form; the view brings the    *)
(* amount to KES and the gateway writes the payload of the push request    *)

MaxPushAmount == 300

\* the stored amounts pushed, in hundredths of a USD
PushedAmounts == (0 .. MaxPushAmount) \cup {1000, 99999}

\* _process_payment passes float(kes_amount), _process_mpesa_payment
\* int(kes_amount): the amount the gateway is called with, in hundredths
StkPushArgument(path, kes_amount) ==
    IF path = "form" THEN (kes_amount \div 100) * 100 ELSE kes_amount

\* "Amount": int(amount), in whole KES, with the amount rounded instead
StkPushAmount_rounded(amount) == (amount + 50) \div 100

\* "Amount": int(amount), in whole KES
StkPushAmount(amount) == amount \div 100

\* the view: get_mpesa_amount of the stored amount, and the call
ProcessMpesaPayment(w) ==
    /\ workers[w].pc = "stored"
    /\ workers' = [workers EXCEPT ![w] =
            [pc |-> "initiate_stk_push", path |-> @.path, usd_amount |-> @.usd_amount,
             amount |-> StkPushArgument(@.path, get_mpesa_amount(@.usd_amount))]]
    /\ UNCHANGED <<payment_transactions, callback_logs, now, firebase_completed, firebase_result,
                   ever_completed, next_checkout, requests, WEBHOOK_SECRET,
                   provider_requests, http_response>>

\* the gateway: ValueError for an amount under KES 1, else the payload
StkPushPayload(w) ==
    /\ workers[w].pc = "initiate_stk_push"
    /\ workers' = [workers EXCEPT ![w] =
            IF @.amount < 100
            THEN [pc |-> "raised", path |-> @.path, usd_amount |-> @.usd_amount,
                  amount |-> @.amount]
            ELSE [pc |-> "payload", path |-> @.path, usd_amount |-> @.usd_amount,
                  amount |-> @.amount, Amount |-> StkPushAmount(@.amount)]]
    /\ UNCHANGED <<payment_transactions, callback_logs, now, firebase_completed, firebase_result,
                   ever_completed, next_checkout, requests, WEBHOOK_SECRET,
                   provider_requests, http_response>>

InitPush ==
    /\ payment_transactions = << >>
    /\ callback_logs = << >>
    /\ now = 1
    /\ workers \in {[w \in WorkerIds |->
                        IF w = 1
                        THEN [pc |-> "stored", path |-> p, usd_amount |-> x]
                        ELSE Idle] :
                    x \in PushedAmounts, p \in {"api", "form"}}
    /\ firebase_completed = [id \in TxIds |-> 0]
    /\ ever_completed = {}
    /\ next_checkout = 0
    /\ requests = 0
    /\ WEBHOOK_SECRET = "whsec"
    /\ provider_requests = [e \in ProviderEndpoints |-> 0]
    /\ http_response = Response("", 0, "")
    /\ firebase_result = NoSync

NextPush ==
    \/ \E w \in WorkerIds : ProcessMpesaPayment(w)
    \/ \E w \in WorkerIds : StkPushPayload(w)

SpecPush == InitPush /\ [][NextPush]_vars

----------------------------------------------------------------------------
(* The access token of one MpesaService object: _get_access_token called   *)
(* again and again on the object while time passes (seconds), the token    *)
(* request answered or failing                                             *)

\* timedelta(seconds=3500)
TOKEN_VALIDITY == 3500

\* the latest reading of the clock in a behaviour
MaxTokenClock == 10500

\* token requests sent in one behaviour
MaxTokenRequests == 3

\* the seconds that pass between two steps: half the validity, one second
\* short of it, all of it
TokenDelays == {1750, 3499, 3500}

\* self.access_token = None, and the token a fetch obtained at a time
NoAccessToken == [issued |-> FALSE, at |-> 0]
AccessToken(fetched_at) == [issued |-> TRUE, at |-> fetched_at]

\* self.token_expiry = None, and an expiry
NoExpiry == [set |-> FALSE, at |-> 0]
Expiry(at) == [set |-> TRUE, at |-> at]

\* MpesaService.__init__, and the call the object last answered
MpesaService ==
    [pc |-> "service", access_token |-> NoAccessToken, token_expiry |-> NoExpiry,
     returned |-> NoAccessToken, returned_at |-> 0, from_cache |-> FALSE]

\* the cached token served up to and at its expiry
token_cached_through_expiry(self, clock) ==
    self.access_token.issued /\ self.token_expiry.set /\ clock <= self.token_expiry.at

\* self.access_token and self.token_expiry and datetime.now() < self.token_expiry
token_cached(self, clock) ==
    self.access_token.issued /\ self.token_expiry.set /\ clock < self.token_expiry.at

\* _get_access_token, cached branch: the token of the object is returned
GetAccessToken_cached(w) ==
    /\ workers[w].pc = "service"
    /\ token_cached(workers[w], now)
    /\ workers' = [workers EXCEPT ![w].returned = workers[w].access_token,
                                  ![w].returned_at = now,
                                  ![w].from_cache = TRUE]
    /\ UNCHANGED <<payment_transactions, callback_logs, now, firebase_completed,
                   firebase_result, ever_completed, next_checkout, requests,
                   WEBHOOK_SECRET, provider_requests, http_response>>

\* _get_access_token, no usable token: requests.get to the token endpoint
GetAccessToken_request(w) ==
    /\ workers[w].pc = "service"
    /\ ~token_cached(workers[w], now)
    /\ provider_requests["oauth"] < MaxTokenRequests
    /\ workers' = [workers EXCEPT ![w].pc = "oauth"]
    /\ provider_requests' = Requested(provider_requests, <<"oauth">>)
    /\ UNCHANGED <<payment_transactions, callback_logs, now, firebase_completed,
                   firebase_result, ever_completed, next_checkout, requests,
                   WEBHOOK_SECRET, http_response>>

\* _get_access_token, the answer: the token and its expiry kept on the object
\* and the token returned, or the exception raised (RequestException,
\* KeyError) with the object as it was
GetAccessToken_response(w, answered) ==
    /\ workers[w].pc = "oauth"
    /\ workers' = [workers EXCEPT ![w] =
            IF answered
            THEN [pc |-> "service", access_token |-> AccessToken(now),
                  token_expiry |-> Expiry(now + TOKEN_VALIDITY),
                  returned |-> AccessToken(now), returned_at |-> now,
                  from_cache |-> FALSE]
            ELSE [@ EXCEPT !.pc = "service", !.returned = NoAccessToken,
                           !.returned_at = now, !.from_cache = FALSE]]
    /\ UNCHANGED <<payment_transactions, callback_logs, now, firebase_completed,
                   firebase_result, ever_completed, next_checkout, requests,
                   WEBHOOK_SECRET, provider_requests, http_response>>

\* datetime.now() moves on
Elapse(seconds) ==
    /\ now + seconds <= MaxTokenClock
    /\ now' = now + seconds
    /\ UNCHANGED <<payment_transactions, callback_logs, workers, firebase_completed,
                   firebase_result, ever_completed, next_checkout, requests,
                   WEBHOOK_SECRET, provider_requests, http_response>>

InitToken ==
    /\ payment_transactions = << >>
    /\ callback_logs = << >>
    /\ now = 1
    /\ workers = [w \in WorkerIds |-> IF w = 1 THEN MpesaService ELSE Idle]
    /\ firebase_completed = [id \in TxIds |-> 0]
    /\ ever_completed = {}
    /\ next_checkout = 0
    /\ requests = 0
    /\ WEBHOOK_SECRET = "whsec"
    /\ provider_requests = [e \in ProviderEndpoints |-> 0]
    /\ http_response = Response("", 0, "")
    /\ firebase_result = NoSync

NextToken ==
    \/ \E w \in WorkerIds : GetAccessToken_cached(w)
    \/ \E w \in WorkerIds : GetAccessToken_request(w)
    \/ \E w \in WorkerIds, answered \in BOOLEAN : GetAccessToken_response(w, answered)
    \/ \E seconds \in TokenDelays : Elapse(seconds)

SpecToken == InitToken /\ [][NextToken]_vars

----------------------------------------------------------------------------
(* The card status table on its own: a status string of the provider, in   *)
(* any casing of its letters, is lowered by process_webhook or by          *)
(* verify_payment and then mapped by _map_payment_status                   *)

Uppercase ==
    <<"A", "B", "C", "D", "E", "F", "G", "H", "I", "J", "K", "L", "M",
      "N", "O", "P", "Q", "R", "S", "T", "U", "V", "W", "X", "Y", "Z">>
Lowercase ==
    <<"a", "b", "c", "d", "e", "f", "g", "h", "i", "j", "k", "l", "m",
      "n", "o", "p", "q", "r", "s", "t", "u", "v", "w", "x", "y", "z">>

UpperLetter(c) ==
    IF \E i \in DOMAIN Lowercase : Lowercase[i] = c
    THEN Uppercase[CHOOSE i \in DOMAIN Lowercase : Lowercase[i] = c] ELSE c
LowerLetter(c) ==
    IF \E i \in DOMAIN Uppercase : Uppercase[i] = c
    THEN Lowercase[CHOOSE i \in DOMAIN Uppercase : Uppercase[i] = c] ELSE c

\* str.lower(), character by character
StrLower(chars) == Join([i \in DOMAIN chars |-> LowerLetter(chars[i])])

\* the statuses the provider words, and some it does not
StatusWords ==
    {<<"s", "u", "c", "c", "e", "s", "s", "f", "u", "l">>,
     <<"c", "o", "m", "p", "l", "e", "t", "e", "d">>,
     <<"p", "e", "n", "d", "i", "n", "g">>,
     <<"f", "a", "i", "l", "e", "d">>,
     <<"c", "a", "n", "c", "e", "l", "l", "e", "d">>,
     <<"a", "b", "a", "n", "d", "o", "n", "e", "d">>,
     <<"s", "u", "c", "c", "e", "s", "s">>,
     <<"e", "r", "r", "o", "r">>,
     << >>}

\* a word in every casing of its letters
Casings(word) ==
    {[i \in DOMAIN word |-> IF i \in capitals THEN UpperLetter(word[i]) ELSE word[i]] :
        capitals \in SUBSET DOMAIN word}

\* process_webhook: data.get('status', '').lower()
ProcessWebhookLower(w) ==
    /\ workers[w].pc = "status"
    /\ workers[w].path = "webhook"
    /\ workers' = [workers EXCEPT ![w] =
            [pc |-> "lowered", path |-> @.path, chars |-> @.chars,
             status |-> StrLower(@.chars)]]
    /\ UNCHANGED <<payment_transactions, callback_logs, now, firebase_completed,
                   firebase_result, ever_completed, next_checkout, requests,
                   WEBHOOK_SECRET, provider_requests, http_response>>

\* verify_payment: data.get('status', '').lower()
VerifyPaymentLower(w) ==
    /\ workers[w].pc = "status"
    /\ workers[w].path = "verify"
    /\ workers' = [workers EXCEPT ![w] =
            [pc |-> "lowered", path |-> @.path, chars |-> @.chars,
             status |-> StrLower(@.chars)]]
    /\ UNCHANGED <<payment_transactions, callback_logs, now, firebase_completed,
                   firebase_result, ever_completed, next_checkout, requests,
                   WEBHOOK_SECRET, provider_requests, http_response>>

\* self._map_payment_status(status), on either path
MapPaymentStatus(w) ==
    /\ workers[w].pc = "lowered"
    /\ workers' = [workers EXCEPT ![w] =
            [pc |-> "mapped", path |-> @.path, chars |-> @.chars,
             status |-> @.status,
             payment_status |-> _map_payment_status(JStr(@.status))]]
    /\ UNCHANGED <<payment_transactions, callback_logs, now, firebase_completed,
                   firebase_result, ever_completed, next_checkout, requests,
                   WEBHOOK_SECRET, provider_requests, http_response>>

InitStatus ==
    /\ payment_transactions = << >>
    /\ callback_logs = << >>
    /\ now = 1
    /\ workers \in {[w \in WorkerIds |->
                        IF w = 1
                        THEN [pc |-> "status", path |-> p, chars |-> chars]
                        ELSE Idle] :
                    p \in {"webhook", "verify"},
                    chars \in UNION {Casings(word) : word \in StatusWords}}
    /\ firebase_completed = [id \in TxIds |-> 0]
    /\ ever_completed = {}
    /\ next_checkout = 0
    /\ requests = 0
    /\ WEBHOOK_SECRET = "whsec"
    /\ provider_requests = [e \in ProviderEndpoints |-> 0]
    /\ http_response = Response("", 0, "")
    /\ firebase_result = NoSync

NextStatus ==
    \/ \E w \in WorkerIds : ProcessWebhookLower(w)
    \/ \E w \in WorkerIds : VerifyPaymentLower(w)
    \/ \E w \in WorkerIds : MapPaymentStatus(w)

SpecStatus == InitStatus /\ [][NextStatus]_vars

----------------------------------------------------------------------------
(* _format_phone_number on its own: a phone number as it may be typed is   *)
(* handed to the function                                                  *)

\* the longest run of digits after the prefix of a number
MaxPhoneDigits == 12

\* how the numbers begin: nothing, the trunk zero, the country code bare,
\* with a plus and with a space after it, a subscriber digit, another
\* country's code
PhonePrefixes ==
    {<< >>, <<"0">>, <<"2", "5", "4">>, <<"+", "2", "5", "4">>,
     <<"2", "5", "4", " ">>, <<"7">>, <<"+", "1">>, <<"0", "0">>}

\* n times the digit 7
RECURSIVE Sevens(_)
Sevens(n) == IF n = 0 THEN << >> ELSE <<"7">> \o Sevens(n - 1)

\* the numbers handed to the function
TypedPhones == {prefix \o Sevens(n) : prefix \in PhonePrefixes, n \in 0..MaxPhoneDigits}

\* formatted_phone = self._format_phone_number(phone_number)
FormatPhoneNumber(w) ==
    /\ workers[w].pc = "phone"
    /\ workers' = [workers EXCEPT ![w] =
            [pc |-> "formatted", phone_number |-> @.phone_number,
             formatted_phone |-> _format_phone_number(@.phone_number)]]
    /\ UNCHANGED <<payment_transactions, callback_logs, now, firebase_completed,
                   firebase_result, ever_completed, next_checkout, requests,
                   WEBHOOK_SECRET, provider_requests, http_response>>

InitPhone ==
    /\ payment_transactions = << >>
    /\ callback_logs = << >>
    /\ now = 1
    /\ workers \in {[w \in WorkerIds |->
                        IF w = 1 THEN [pc |-> "phone", phone_number |-> phone]
                        ELSE Idle] :
                    phone \in TypedPhones}
    /\ firebase_completed = [id \in TxIds |-> 0]
    /\ ever_completed = {}
    /\ next_checkout = 0
    /\ requests = 0
    /\ WEBHOOK_SECRET = "whsec"
    /\ provider_requests = [e \in ProviderEndpoints |-> 0]
    /\ http_response = Response("", 0, "")
    /\ firebase_result = NoSync

NextPhone == \E w \in WorkerIds : FormatPhoneNumber(w)

SpecPhone == InitPhone /\ [][NextPhone]_vars

----------------------------------------------------------------------------
(* The transition rules on their own: two workers hold one stored           *)
(* Transaction and one result of a provider, each applies the rule of its   *)
(* path, and then holds the status its path leaves stored (the redirect     *)
(* callback serves the card provider's Transactions)                        *)

ReconcilePaths == {"webhook", "poll", "redirect"}

\* the Transactions reconciled: of either payment method, in every status
ReconciledTransactions ==
    {[PaymentTransaction("t1", "u1", 1000, m, NoPhone)
        EXCEPT !.status = st,
               !.mpesa_checkout_request_id = IF m = "mpesa" THEN CheckoutId(1) ELSE "",
               !.flutterwave_tx_ref = IF m = "mpesa" THEN "" ELSE "t1"] :
        m \in {"mpesa", "flutterwave"}, st \in PAYMENT_STATUS}

\* what a provider reports: a status, mapped, with a reference or none
ProviderResults ==
    [success : {TRUE}, status : PAYMENT_STATUS \ {"pending"}, flw_ref : {"FLW-1", Null},
     mpesa_receipt : {Null}, error_message : {Missing}]

\* the status a path leaves stored for a Transaction and a provider's result:
\* the webhook views save the status reported; the poll asks a provider only
\* for a pending Transaction and saves a status that differs; the redirect
\* callback saves completed or failed
ReconciledStatus(path, transaction, result) ==
    CASE path = "webhook" ->
            IF transaction.payment_method = "mpesa"
            THEN MpesaCallbackUpdate(transaction, result).status
            ELSE FlutterwaveUpdate(transaction, result).status
      [] path = "poll" ->
            IF QueriesProvider(transaction) /\ PollWrites(result, transaction)
            THEN PollUpdate(transaction, result).status
            ELSE transaction.status
      [] OTHER -> PaymentCallbackUpdate(transaction, result).status

Reconcile(w) ==
    /\ workers[w].pc = "reconcile"
    /\ workers' = [workers EXCEPT ![w] =
            [pc |-> "reconciled", path |-> @.path,
             transaction |-> @.transaction, result |-> @.result,
             status |-> ReconciledStatus(@.path, @.transaction, @.result)]]
    /\ UNCHANGED <<payment_transactions, callback_logs, now, firebase_completed, firebase_result,
                   ever_completed, next_checkout, requests, WEBHOOK_SECRET,
                   provider_requests, http_response>>

\* the pairs of paths compared, with the Transaction and the result they
\* reconcile
ReconcileCases ==
    {c \in {<<"webhook", "poll">>, <<"webhook", "redirect">>,
             <<"poll", "redirect">>}
            \X ReconciledTransactions \X ProviderResults :
        "redirect" \in {c[1][1], c[1][2]} => c[2].payment_method = "flutterwave"}

InitRule ==
    /\ payment_transactions = << >>
    /\ callback_logs = << >>
    /\ now = 1
    /\ workers \in {[w \in WorkerIds |->
                        [pc |-> "reconcile",
                         path |-> IF w = 1 THEN c[1][1] ELSE c[1][2],
                         transaction |-> c[2], result |-> c[3]]] :
                        c \in ReconcileCases}
    /\ firebase_completed = [id \in TxIds |-> 0]
    /\ ever_completed = {}
    /\ next_checkout = 0
    /\ requests = 0
    /\ WEBHOOK_SECRET = "whsec"
    /\ provider_requests = [e \in ProviderEndpoints |-> 0]
    /\ http_response = Response("", 0, "")
    /\ firebase_result = NoSync

NextRule == \E w \in WorkerIds : Reconcile(w)

SpecRule == InitRule /\ [][NextRule]_vars

----------------------------------------------------------------------------
(* Reconciliation of a payment that has ended at its provider: a pending   *)
(* Transaction whose initiation was accepted is stored with its            *)
(* correlation id; the provider delivers the webhook of the result and     *)
(* answers polls with it, after an outage of at most MaxOutage queries     *)

\* webhooks the provider delivers for one payment (the notification and a
\* retry)
MaxDeliveries == 2
\* status queries that fail before the provider answers
MaxOutage == 1

\* a Transaction as an accepted initiation leaves it
Initiated(payment_method) ==
    LET created == save(PaymentTransaction("t1", "u1", 1000, payment_method,
                            IF payment_method = "mpesa"
                            THEN <<"0", "7", "1", "2", "3", "4", "5", "6", "7", "8">>
                            ELSE NoPhone), 1)
    IN save(IF payment_method = "mpesa"
            THEN [created EXCEPT !.mpesa_checkout_request_id = CheckoutId(1)]
            ELSE [created EXCEPT !.flutterwave_tx_ref = "t1"], 2)

\* the webhook bodies of the result of a Transaction's payment
ResultBodies(transaction) ==
    IF transaction.payment_method = "mpesa"
    THEN {b \in MpesaBodies :
            /\ b.shape = "dict"
            /\ b.CheckoutRequestID = transaction.mpesa_checkout_request_id}
    ELSE {b \in FlutterwaveBodies :
            /\ b.shape = "dict"
            /\ b.tx_ref = transaction.flutterwave_tx_ref}

\* the provider delivers the webhook of the result, signed
WebhookDelivered ==
    /\ Len(callback_logs) < MaxDeliveries
    /\ \E w \in WorkerIds, id \in DOMAIN payment_transactions :
        \E b \in ResultBodies(payment_transactions[id]) :
            IF payment_transactions[id].payment_method = "mpesa"
            THEN MpesaCallbackView_post_log(w, b)
            ELSE FlutterwaveWebhookView_post_log(w, b,
                        HmacHexdigest(WEBHOOK_SECRET, JsonDumps(b)))

\* a webhook view that has logged goes on to its end
WebhookHandled ==
    \E w \in WorkerIds :
        \/ MpesaCallbackView_post_process(w)
        \/ MpesaCallbackView_post_save(w)
        \/ FlutterwaveWebhookView_post_process(w)
        \/ FlutterwaveWebhookView_post_save(w)

\* a client polls the status
PollMade ==
    \E w \in WorkerIds, id \in TxIds : PaymentStatusAPIView_get(w, id)

\* the provider's answers that carry the result of the payment
ResultAnswers ==
    {r \in StkQueryResponses :
        r.status_code = 200 /\ r.ResultCode \in {JInt(0), JInt(1032)}} \cup
    {r \in VerifyResponses :
        r.status_code = 200 /\ r.data_status \in {JStr("successful"), JStr("failed")}}

\* the poll's provider call is answered with the result
PollAnswered ==
    \E w \in WorkerIds, r \in ResultAnswers :
        PaymentStatusAPIView_update_payment_status(w, r)

\* the poll's provider call fails: a network error or a timeout
PollUnanswered ==
    /\ provider_requests["stkpushquery"] + provider_requests["verify_by_reference"]
            < MaxOutage
    /\ \E w \in WorkerIds :
        \E r \in {q \in StkQueryResponses \cup VerifyResponses :
                    q.raised /\ q.status_code = 0} :
            PaymentStatusAPIView_update_payment_status(w, r)

InitLive ==
    /\ \E payment_method \in {"mpesa", "flutterwave"} :
        /\ payment_transactions = Stored(<< >>, Initiated(payment_method))
        /\ next_checkout = IF payment_method = "mpesa" THEN 1 ELSE 0
        /\ provider_requests =
                Requested([e \in ProviderEndpoints |-> 0],
                          IF payment_method = "mpesa" THEN <<"oauth", "stkpush">>
                          ELSE initiate_card_payment_requests)
    /\ callback_logs = << >>
    /\ now = 3
    /\ workers = [w \in WorkerIds |-> Idle]
    /\ firebase_completed = [id \in TxIds |-> 0]
    /\ ever_completed = {}
    /\ requests = 0
    /\ WEBHOOK_SECRET = "whsec"
    /\ http_response = Response("", 0, "")
    /\ firebase_result = NoSync

NextLive ==
    \/ WebhookDelivered
    \/ WebhookHandled
    \/ PollMade
    \/ PollAnswered
    \/ PollUnanswered

\* a request that a view has accepted is served to its end: the view goes on,
\* and a provider call returns (with an answer, or with the exception of its
\* 30 second timeout)
SpecLive ==
    /\ InitLive
    /\ [][NextLive]_vars
    /\ WF_vars(WebhookHandled)
    /\ WF_vars(PollAnswered \/ PollUnanswered)

----------------------------------------------------------------------------
(* The card webhook under every configuration of the webhook secret: a     *)
(* card payment is stored pending, and webhooks arrive with no verif-hash  *)
(* header, or with a digest under the configured secret, under the empty   *)
(* key or under another key                                                *)

\* os.getenv('FLUTTERWAVE_WEBHOOK_SECRET'): not set, set empty, set
ConfiguredSecrets == {Null, "", "whsec"}

\* the verif-hash headers sent with a body
SentSignatures(body) == Signatures(body) \cup {HmacHexdigest("", JsonDumps(body))}

InitSecret ==
    /\ payment_transactions = Stored(<< >>, Initiated("flutterwave"))
    /\ next_checkout = 0
    /\ provider_requests =
            Requested([e \in ProviderEndpoints |-> 0], initiate_card_payment_requests)
    /\ callback_logs = << >>
    /\ now = 3
    /\ workers = [w \in WorkerIds |-> Idle]
    /\ firebase_completed = [id \in TxIds |-> 0]
    /\ ever_completed = {}
    /\ requests = 0
    /\ WEBHOOK_SECRET \in ConfiguredSecrets
    /\ http_response = Response("", 0, "")
    /\ firebase_result = NoSync

NextSecret ==
    \/ \E w \in WorkerIds, b \in FlutterwaveBodies \cup {Unparsable} :
            \E sig \in SentSignatures(b) : FlutterwaveWebhookView_post_log(w, b, sig)
    \/ \E w \in WorkerIds : FlutterwaveWebhookView_post_process(w)
    \/ \E w \in WorkerIds : FlutterwaveWebhookView_post_save(w)

SpecSecret == InitSecret /\ [][NextSecret]_vars

----------------------------------------------------------------------------
(* The M-Pesa initiation cut once more, between the provider's              *)
(* acknowledgement of the push and the save of its checkout-request id:     *)
(* the provider has issued the id when it answers, the view stores it when  *)
(* the answer has arrived, and the provider's callback can be served by     *)
(* the other worker in between                                              *)

\* the amount handed to initiate_stk_push: int(kes_amount) from the form,
\* float(kes_amount) from the API (hundredths of a KES)
InitiatedKesAmount(view, transaction) ==
    IF view = "PaymentFormView"
    THEN (get_mpesa_amount(transaction.amount) \div 100) * 100
    ELSE get_mpesa_amount(transaction.amount)

\* initiate_stk_push up to the provider's answer: the provider has taken the
\* push and issued its checkout-request id
InitiateAcknowledged(w, response) ==
    /\ workers[w].pc \in {"stk_push", "process_payment"}
    /\ workers[w].transaction.payment_method = "mpesa"
    /\ response \in StkPushResponses
    /\ LET transaction == workers[w].transaction
           amount == InitiatedKesAmount(workers[w].view, transaction)
           result == initiate_stk_push(transaction.phone_number, amount, response)
       IN /\ next_checkout' = IF result.success THEN next_checkout + 1
                              ELSE next_checkout
          /\ provider_requests' =
                Requested(provider_requests,
                          initiate_stk_push_requests(transaction.phone_number,
                                                     amount, response))
          /\ workers' = [workers EXCEPT ![w] =
                [pc |-> "acknowledged", view |-> @.view,
                 transaction |-> transaction, result |-> result]]
    /\ UNCHANGED <<payment_transactions, callback_logs, now, firebase_completed,
                   firebase_result, ever_completed, requests, WEBHOOK_SECRET,
                   http_response>>

\* the view from the result on: the checkout-request id saved on the object
\* the view holds, or the transition to failed; then the answer
InitiateSaved(w) ==
    /\ workers[w].pc = "acknowledged"
    /\ LET transaction == workers[w].transaction
           result == workers[w].result
           form == workers[w].view = "PaymentFormView"
           saved == IF result.success
                    THEN save([transaction EXCEPT
                                 !.mpesa_checkout_request_id = result.checkout_request_id],
                              now)
                    ELSE save([transaction EXCEPT
                                 !.status = "failed",
                                 !.failure_reason =
                                    IF form
                                    THEN Get(ResultMessage(result),
                                             "M-Pesa payment initiation failed")
                                    ELSE Get(result.error_message,
                                             "Payment initiation failed")],
                              now)
       IN /\ payment_transactions' = Stored(payment_transactions, saved)
          /\ http_response' =
                IF form
                THEN IF result.success
                     THEN FormRedirect("payments:payment_status", "")
                     ELSE FormRedirect("payments:payment_form",
                                       "M-Pesa payment failed: "
                                         \o Get(ResultMessage(result), "None"))
                ELSE IF result.success
                     THEN Response("PaymentInitiationView.post", 201,
                                   [success |-> TRUE,
                                    transaction_id |-> transaction.transaction_id])
                     ELSE InitiationError(400,
                                          Get(result.error_message,
                                              "Payment initiation failed"),
                                          transaction.transaction_id)
    /\ ever_completed' = Remember(payment_transactions')
    /\ workers' = [workers EXCEPT ![w] = Idle]
    /\ UNCHANGED <<callback_logs, firebase_completed, firebase_result, requests,
                   next_checkout, WEBHOOK_SECRET, provider_requests>>
    /\ Clock

\* the number the pushes go to
PushedPhone == <<"0", "7", "1", "2", "3", "4", "5", "6", "7", "8">>

InitRace == Init

NextRace ==
    \/ \E w \in WorkerIds, id \in TxIds :
            PaymentFormView_get(w, id, "u1", 1000, "USD", NoOriginalAmount)
    \/ \E w \in WorkerIds, id \in TxIds :
            PaymentFormView_post(w, id, "mpesa", PushedPhone)
    \/ \E w \in WorkerIds, id \in TxIds :
            PaymentInitiationView_post(w, id, "u1", 1000, "USD", "mpesa", PushedPhone)
    \/ \E w \in WorkerIds, r \in StkPushResponses : InitiateAcknowledged(w, r)
    \/ \E w \in WorkerIds : InitiateSaved(w)
    \/ \E w \in WorkerIds, b \in MpesaBodies : MpesaCallbackView_post_log(w, b)
    \/ \E w \in WorkerIds : MpesaCallbackView_post_process(w)
    \/ \E w \in WorkerIds : MpesaCallbackView_post_save(w)

SpecRace == InitRace /\ [][NextRace]_vars

----------------------------------------------------------------------------
(* Properties *)

\* the row stored under a worker's copy of a Transaction
StoredRow(w) == payment_transactions[workers[w].transaction.transaction_id]

\* no worker is still handling the notification logged as record i
Handled(i) ==
    \A w \in WorkerIds :
        ~(workers[w].pc \in {"process", "save"} /\ workers[w].callback_record = i)

\* the canonical status a logged payload reports
Reported(log) ==
    IF log.provider = "mpesa"
    THEN process_callback(log.raw_data).status
    ELSE payment_status(log.raw_data.status)

\* a webhook that reported the status for the Transaction has been handled
WebhookReported(id, status) ==
    \E i \in DOMAIN callback_logs :
        /\ callback_logs[i].success
        /\ callback_logs[i].transaction_id = id
        /\ Reported(callback_logs[i]) = status
        /\ Handled(i)

\* C1: terminal statuses are absorbing: no step of any request changes the
\* status of a Transaction that is completed, failed or cancelled.
C1_TerminalAbsorbing ==
    [][\A id \in DOMAIN payment_transactions :
            payment_transactions[id].status \in TerminalStatus
            => payment_transactions'[id].status = payment_transactions[id].status
      ]_vars

\* C2: when a webhook has reported completed for a Transaction and a status
\* poll in flight on the same Transaction is answered completed as well, the
\* completion sync has been made exactly once after the poll's step.
C2_PollAndWebhookSyncOnce ==
    [][\A w \in WorkerIds, r \in StkQueryResponses \cup VerifyResponses :
            (/\ PaymentStatusAPIView_update_payment_status(w, r)
             /\ (IF workers[w].transaction.payment_method = "mpesa"
                 THEN query_stk_status(r) ELSE verify_payment(r)).status
                    = "completed"
             /\ WebhookReported(workers[w].transaction.transaction_id,
                                "completed"))
            => firebase_completed'[workers[w].transaction.transaction_id] = 1
      ]_vars

\* C3: the terminal status written first is final: a poll that read the
\* Transaction as pending or processing, and comes to its write when a webhook
\* has stored a terminal status, leaves the stored status as it is.
C3_FirstTerminalWriteFinal ==
    [][\A w \in WorkerIds :
            (/\ workers[w].pc = "provider"
             /\ workers[w].view = "PaymentStatusAPIView"
             /\ workers'[w] = Idle
             /\ is_pending(workers[w].transaction)
             /\ StoredRow(w).status \in TerminalStatus
             /\ WebhookReported(workers[w].transaction.transaction_id,
                                StoredRow(w).status))
            => payment_transactions'[workers[w].transaction.transaction_id].status
                    = StoredRow(w).status
      ]_vars

\* C4: in every reachable state the number of completion syncs made for a
\* Transaction is 1 if its status has ever been completed and 0 otherwise.
C4_SyncCountMatchesHistory ==
    \A id \in TxIds :
        firebase_completed[id] = IF id \in ever_completed THEN 1 ELSE 0

\* the second of two deliveries of one success payload comes to its save: an
\* identical notification was accepted and handled before, and the
\* Transaction is as that handling left it (completed, carrying the receipt or
\* reference of the payload, unwritten since this delivery read it)
Replay(w) ==
    /\ workers[w].pc = "save"
    /\ LET rec == workers[w].callback_record
           log == callback_logs[rec]
           update == IF log.provider = "mpesa"
                     THEN MpesaCallbackUpdate(StoredRow(w),
                                              process_callback(log.raw_data))
                     ELSE FlutterwaveUpdate(StoredRow(w),
                              process_webhook(log.raw_data, workers[w].signature,
                                              WEBHOOK_SECRET))
       IN /\ Reported(log) = "completed"
          /\ \E i \in 1..(rec - 1) :
                /\ callback_logs[i].provider = log.provider
                /\ callback_logs[i].raw_data = log.raw_data
                /\ callback_logs[i].success
                /\ Handled(i)
          /\ StoredRow(w) = workers[w].transaction
          /\ StoredRow(w).status = "completed"
          /\ update = StoredRow(w)

C6_CompletedAtSetOnce ==
    [][\A w \in WorkerIds :
            (/\ workers[w].pc \in {"provider", "save"}
             /\ workers'[w] = Idle)
            => LET id == workers[w].transaction.transaction_id
                   before == payment_transactions[id]
                   after == payment_transactions'[id]
               IN /\ before.completed_at # NullTime
                     => after.completed_at = before.completed_at
                  /\ (before.completed_at = NullTime
                      /\ after.completed_at # NullTime)
                     => (before.status # "completed"
                         /\ after.status = "completed")
      ]_vars

\* the card webhook a worker is about to interpret carries a signature other
\* than the digest of its payload under the shared secret
SignatureMismatch(w) ==
    /\ workers[w].pc = "process"
    /\ workers[w].view = "FlutterwaveWebhookView"
    /\ workers[w].signature
            # HmacHexdigest(WEBHOOK_SECRET, JsonDumps(workers[w].webhook_data))

\* C7: a card webhook whose signature does not match never reaches the state
\* machine: its handling ends with the CallbackRecord marked failed with the
\* error message, and every field of every Transaction, and the sync counts,
\* unchanged.
C7_InvalidSignatureRejected ==
    [][\A w \in WorkerIds :
            (SignatureMismatch(w) /\ workers'[w] # workers[w])
            => /\ workers'[w] = Idle
               /\ ~callback_logs'[workers[w].callback_record].success
               /\ callback_logs'[workers[w].callback_record].error_message
                    = "Invalid webhook signature"
               /\ payment_transactions' = payment_transactions
               /\ firebase_completed' = firebase_completed
      ]_vars

\* C7 reached: a webhook reporting success for a stored Transaction under a
\* forged signature has been handled; its record is marked failed.
C7_ForgedWebhookHandled ==
    \E i \in DOMAIN callback_logs :
        /\ callback_logs[i].provider = "flutterwave"
        /\ callback_logs[i].error_message = "Invalid webhook signature"
        /\ ~callback_logs[i].success
        /\ Handled(i)
        /\ Reported(callback_logs[i]) = "completed"
        /\ callback_logs[i].transaction_id \in DOMAIN payment_transactions
        /\ payment_transactions[callback_logs[i].transaction_id].status = "pending"

\* C8: every inbound notification whose body is JSON leaves a CallbackRecord
\* holding that body, written by the handler's first step (before the
\* interpretation and before any Transaction is read).
C8_EveryNotificationLogged ==
    [][\A w \in WorkerIds :
            /\ \A b \in MpesaBodies :
                    MpesaCallbackView_post_log(w, b)
                    => /\ Len(callback_logs') = Len(callback_logs) + 1
                       /\ callback_logs'[Len(callback_logs')].raw_data = b
            /\ \A b \in FlutterwaveBodies :
                    \A sig \in Signatures(b) :
                        FlutterwaveWebhookView_post_log(w, b, sig)
                        => /\ Len(callback_logs') = Len(callback_logs) + 1
                           /\ callback_logs'[Len(callback_logs')].raw_data = b
      ]_vars

\* the notification a worker is about to interpret is well formed and, for a
\* card webhook, authentic, and its correlation id is that of no stored
\* Transaction
Unresolvable(w) ==
    /\ workers[w].pc = "process"
    /\ IF workers[w].view = "MpesaCallbackView"
       THEN /\ workers[w].callback_data.shape = "dict"
            /\ \A id \in DOMAIN payment_transactions :
                    payment_transactions[id].mpesa_checkout_request_id
                        # workers[w].callback_data.CheckoutRequestID
       ELSE /\ workers[w].signature
                    = HmacHexdigest(WEBHOOK_SECRET,
                                    JsonDumps(workers[w].webhook_data))
            /\ workers[w].webhook_data.status.t = "str"
            /\ workers[w].webhook_data.tx_ref \notin DOMAIN payment_transactions

\* C9: a notification whose correlation id matches no stored Transaction ends
\* with its CallbackRecord not successful and the error "Transaction not
\* found"; no Transaction is created and none is modified.
C9_UnknownCorrelationIdOrphaned ==
    [][\A w \in WorkerIds :
            (Unresolvable(w) /\ workers'[w] # workers[w])
            => /\ workers'[w] = Idle
               /\ ~callback_logs'[workers[w].callback_record].success
               /\ callback_logs'[workers[w].callback_record].error_message
                    = "Transaction not found"
               /\ payment_transactions' = payment_transactions
               /\ firebase_completed' = firebase_completed
      ]_vars

\* C9 reached: with a pending Transaction stored, a callback of each gateway
\* under an unknown correlation id has been handled and marked.
C9_OrphansOfBothGateways ==
    /\ \E id \in DOMAIN payment_transactions :
            payment_transactions[id].status = "pending"
    /\ \A provider \in {"mpesa", "flutterwave"} :
            \E i \in DOMAIN callback_logs :
                /\ callback_logs[i].provider = provider
                /\ callback_logs[i].error_message = "Transaction not found"
                /\ ~callback_logs[i].success
                /\ Handled(i)

\* the keys of the two mapping tables, and their success entries
MpesaTable ==
    {"0", "1032", "1037", "1025", "1001", "1019", "1026", "1036", "1054", "2001"}
FlutterwaveTable ==
    {"successful", "completed", "pending", "failed", "cancelled", "abandoned"}

\* C10: the mapping is fail-closed for both gateways: every call yields a
\* canonical status; a code absent from the gateway's table, a missing and a
\* null code included, yields failed; completed comes only from mobile-money
\* result code 0 and from card status successful or completed.
C10_FailClosedMapping ==
    \A w \in WorkerIds :
        workers[w].pc = "return" =>
            LET code == workers[w].code
                status == workers[w].status
                key == IF code.t = "int" THEN IntToStr(code.v)
                       ELSE IF code.t = "str" THEN code.s ELSE Null
            IN IF workers[w].gateway = "mpesa"
               THEN /\ status \in PAYMENT_STATUS
                    /\ key \notin MpesaTable => status = "failed"
                    /\ status = "completed" => key = "0"
               ELSE /\ status \in PAYMENT_STATUS
                    /\ (\A k \in FlutterwaveTable : PyLower(JStr(k)) # PyLower(code))
                       => status = "failed"
                    /\ status = "completed"
                       => PyLower(code) \in {"successful", "completed"}

\* an amount in USD outside the configured range
OutOfRange(usd_amount) ==
    usd_amount < MINIMUM_AMOUNT \/ usd_amount > MAXIMUM_AMOUNT

\* an API initiation whose amount is out of range is answered 400, and writes
\* and sends nothing
ApiRejectsAmount ==
    \A w \in WorkerIds, id \in TxIds, u \in Users, a \in InitiationAmounts,
       m \in {"mpesa", "flutterwave", "paypal", ""}, p \in Phones :
        (/\ PaymentInitiationView_post(w, id, u, a[1], a[2], m, p)
         /\ OutOfRange(normalize_amount_for_storage(a[1], Upper(a[2]))))
        => /\ payment_transactions' = payment_transactions
           /\ provider_requests' = provider_requests
           /\ workers' = workers
           /\ http_response'.status_code = 400

\* a form initiation on an amount out of range sends nothing to the provider
FormRejectsAmount ==
    \A w \in WorkerIds, r \in StkPushResponses :
        (/\ PaymentFormView_post_stk_push(w, r)
         /\ OutOfRange(workers[w].transaction.amount))
        => provider_requests' = provider_requests

\* C11: an initiation request whose amount, in USD, is below the minimum or
\* above the maximum is rejected before anything is stored or sent: through
\* the API it is answered 400 with no Transaction created and no provider
\* request made, and through the form no provider request is made for it.
C11_AmountOutOfRangeRejected ==
    [][ApiRejectsAmount /\ FormRejectsAmount]_vars

\* the part of C11 that the API endpoint carries
C11_ApiAmountOutOfRangeRejected == [][ApiRejectsAmount]_vars

\* C12: an API initiation request with a payment method that is empty or not
\* supported (and an amount in range) is answered 400, creates no
\* Transaction and makes no provider request.
C12_BadMethodRejected ==
    [][\A w \in WorkerIds, id \in TxIds, u \in Users, a \in InitiationAmounts,
          m \in {"paypal", ""}, p \in Phones :
            (/\ PaymentInitiationView_post(w, id, u, a[1], a[2], m, p)
             /\ ~OutOfRange(normalize_amount_for_storage(a[1], Upper(a[2]))))
            => /\ http_response'.status_code = 400
               /\ payment_transactions' = payment_transactions
               /\ provider_requests' = provider_requests
      ]_vars

\* what the gateway's initiate call of a worker returns for a provider's
\* answers
InitiateResult(w, response) ==
    LET transaction == workers[w].transaction
        kes_amount == get_mpesa_amount(transaction.amount)
    IN IF workers[w].view = "PaymentFormView"
       THEN initiate_stk_push(transaction.phone_number,
                              (kes_amount \div 100) * 100, response)
       ELSE IF transaction.payment_method = "mpesa"
       THEN initiate_stk_push(transaction.phone_number, kes_amount, response)
       ELSE initiate_card_payment(response, transaction.transaction_id)

\* the closing step of an initiation, on a provider's answers
InitiationCloses(w, response) ==
    \/ PaymentInitiationView_post_result(w, response)
    \/ /\ response \in StkPushResponses
       /\ PaymentFormView_post_stk_push(w, response)

\* C13: when the gateway's initiate call fails, on the API path and on the
\* form path, the Transaction is stored failed with the gateway's error
\* message as its failure reason, and the caller is told that message.
C13_InitiateFailureRecorded ==
    [][\A w \in WorkerIds, r \in StkPushResponses \cup CardPaymentResponses :
            (InitiationCloses(w, r) /\ ~InitiateResult(w, r).success)
            => LET id == workers[w].transaction.transaction_id
                   error_message == InitiateResult(w, r).error_message
               IN /\ payment_transactions'[id].status = "failed"
                  /\ payment_transactions'[id].failure_reason = error_message
                  /\ IF workers[w].view = "PaymentFormView"
                     THEN http_response'.body.message
                            = "M-Pesa payment failed: " \o error_message
                     ELSE http_response'.body.error = error_message
      ]_vars

\* C14: when the gateway's initiate call succeeds, the Transaction is stored
\* pending and its correlation field holds the id of the call: the
\* checkout-request id the provider returned, or the reference sent to the
\* card provider.
C14_InitiateSuccessPending ==
    [][\A w \in WorkerIds, r \in StkPushResponses \cup CardPaymentResponses :
            (InitiationCloses(w, r) /\ InitiateResult(w, r).success)
            => LET transaction == workers[w].transaction
                   stored == payment_transactions'[transaction.transaction_id]
               IN /\ stored.status = "pending"
                  /\ IF transaction.payment_method = "mpesa"
                     THEN stored.mpesa_checkout_request_id = r.CheckoutRequestID
                     ELSE stored.flutterwave_tx_ref = transaction.transaction_id
      ]_vars

\* C15: a fault while reconciling leaves the stored status as it is: a poll
\* or a redirect callback whose provider call fails, and a webhook whose
\* interpretation fails, change the status of no Transaction.
C15_FaultLeavesStatus ==
    [][/\ \A w \in WorkerIds, r \in StkQueryResponses \cup VerifyResponses :
            (\/ /\ PaymentStatusAPIView_update_payment_status(w, r)
                /\ ~(IF workers[w].transaction.payment_method = "mpesa"
                     THEN query_stk_status(r) ELSE verify_payment(r)).success
             \/ /\ PaymentCallbackView_get_verify(w, r)
                /\ ~verify_payment(r).success)
            => \A id \in DOMAIN payment_transactions :
                    payment_transactions'[id].status = payment_transactions[id].status
       /\ \A w \in WorkerIds :
            (\/ /\ MpesaCallbackView_post_process(w)
                /\ process_callback(workers[w].callback_data) = NoneResult
             \/ /\ FlutterwaveWebhookView_post_process(w)
                /\ ~process_webhook(workers[w].webhook_data, workers[w].signature,
                                    WEBHOOK_SECRET).success)
            => payment_transactions' = payment_transactions
      ]_vars

\* C16: the paths apply one transition rule: two paths that have reconciled
\* the same Transaction with the same provider status hold the same
\* resulting status.
C16_SameTransitionRule ==
    (\A w \in WorkerIds : workers[w].pc = "reconciled")
    => \A v, w \in WorkerIds : workers[v].status = workers[w].status

\* C17: every answer of the mobile-money webhook endpoint is the
\* acknowledgement, result code 0.
C17_AlwaysAcknowledged ==
    http_response.view = "MpesaCallbackView.post"
    => http_response.body.ResultCode = 0

C19_MalformedPhoneNoNetwork ==
    [][\A w \in WorkerIds, r \in StkPushResponses :
            (/\ InitiationCloses(w, r)
             /\ workers[w].transaction.payment_method = "mpesa"
             /\ _format_phone_number(workers[w].transaction.phone_number).raised)
            => provider_requests' = provider_requests
      ]_vars

\* C20: a conversion from or to a currency code that the rate table does not
\* hold fails: the call raises and returns no amount.
C20_UnsupportedCurrencyFails ==
    \A w \in WorkerIds :
        (/\ workers[w].pc = "return"
         /\ \/ ~validate_currency_code(workers[w].from_currency)
            \/ ~validate_currency_code(workers[w].to_currency))
        => workers[w].raised

\* C21: a round trip recovers the amount within 0.01: for every currency of
\* the rate table and every positive amount X of USD with two decimals,
\* convert_to_usd(convert_from_usd(X, C), C) differs from X by at most 0.01.
C21_RoundTripWithinCent ==
    \A w \in WorkerIds :
        workers[w].pc = "recovered"
        => /\ workers[w].usd_amount - workers[w].amount <= 1
           /\ workers[w].amount - workers[w].usd_amount <= 1

\* C21 reached: a round trip through a currency other than USD has come back
\* with another amount than it started from.
C21_RoundTripOffByCent ==
    /\ workers[1].pc = "recovered"
    /\ workers[1].currency # base_currency
    /\ workers[1].usd_amount # workers[1].amount

\* C22: the Amount of a push request is a whole number of KES: the stored USD
\* amount times the rate 147.50, rounded to two decimals (to the nearest
\* hundredth) and then cut to its integer part; for 10.00 USD it is 1475.
C22_PushAmountTruncated ==
    \A w \in WorkerIds :
        workers[w].pc = "payload"
        => LET product == workers[w].usd_amount * EXCHANGE_RATES["KES"]
               Amount == workers[w].Amount
           IN /\ Amount \in Nat
              /\ \E rounded \in (product \div 100) .. (product \div 100 + 1) :
                    /\ 100 * rounded - product <= 50
                    /\ product - 100 * rounded <= 50
                    /\ 100 * Amount <= rounded
                    /\ rounded < 100 * (Amount + 1)
              /\ workers[w].usd_amount = 1000 => Amount = 1475

\* C22 reached: the payload of the push for 10.00 USD carries 1475.
C22_TenDollarsPushed ==
    /\ workers[1].pc = "payload"
    /\ workers[1].usd_amount = 1000
    /\ workers[1].Amount = 1475

\* C23: a mobile-money webhook with result code 0 whose checkout-request id
\* resolved to a pending Transaction stores that Transaction as completed,
\* with the receipt number of the webhook's metadata items as its receipt.
C23_PaidCallbackCompletes ==
    [][\A w \in WorkerIds :
            (/\ MpesaCallbackView_post_save(w)
             /\ PyStr(workers[w].callback_data.ResultCode) = "0"
             /\ workers[w].transaction.status = "pending")
            => LET stored == payment_transactions'[workers[w].transaction.transaction_id]
                   Item == workers[w].callback_data.Item
               IN /\ stored.status = "completed"
                  /\ \E i \in DOMAIN Item :
                        /\ Item[i].Name = "MpesaReceiptNumber"
                        /\ stored.mpesa_receipt = Item[i].Value
      ]_vars

\* C23 reached: a Transaction is stored completed with the receipt ABC123 of
\* a callback that is logged under its id.
C23_ReceiptStored ==
    \E id \in DOMAIN payment_transactions :
        /\ payment_transactions[id].status = "completed"
        /\ payment_transactions[id].mpesa_receipt = "ABC123"
        /\ \E i \in DOMAIN callback_logs :
                /\ callback_logs[i].provider = "mpesa"
                /\ callback_logs[i].transaction_id = id
                /\ callback_logs[i].success

\* C24: a completion sync that fails changes nothing of the Transaction: in
\* the step of a webhook or a poll whose sync returns failure, the row is
\* stored as it was saved before the sync (completed), every other row is
\* as it was, and a webhook is answered with its acknowledgement.
C24_SyncFailureKeepsState ==
    [][\A w \in WorkerIds :
            (/\ firebase_completed' # firebase_completed
             /\ ~firebase_result'.returned
             /\ workers[w].pc # "idle"
             /\ workers'[w] = Idle)
            => LET id == workers[w].transaction.transaction_id
               IN /\ payment_transactions'[id].status = "completed"
                  /\ payment_transactions'[id].completed_at # NullTime
                  /\ \A other \in DOMAIN payment_transactions \ {id} :
                        payment_transactions'[other] = payment_transactions[other]
                  /\ workers[w].view = "MpesaCallbackView"
                        => http_response' = MpesaCallbackProcessed
                  /\ workers[w].view = "FlutterwaveWebhookView"
                        => http_response'.status_code = 200
      ]_vars

\* C24 reached: the last completion sync failed, and the Transaction it was
\* made for is stored completed.
C24_SyncFailedAfterCompletion ==
    /\ firebase_result.called
    /\ ~firebase_result.returned
    /\ \E id \in DOMAIN payment_transactions :
            /\ firebase_completed[id] > 0
            /\ payment_transactions[id].status = "completed"
            /\ http_response.view \in {"MpesaCallbackView.post",
                                       "FlutterwaveWebhookView.post"}

\* a gateway result is structured: a dict with a boolean under 'success'
Structured(result) ==
    /\ "success" \in DOMAIN result
    /\ result.success \in BOOLEAN

\* C25: every gateway operation returns a structured result with a boolean
\* success for every input and every provider outcome: the parsing of a
\* callback or webhook a worker is about to interpret, and the initiate,
\* query and verify calls on every answer of the providers.
C25_GatewayResultsStructured ==
    /\ \A w \in WorkerIds :
            workers[w].pc = "process"
            => IF workers[w].view = "MpesaCallbackView"
               THEN Structured(process_callback(workers[w].callback_data))
               ELSE Structured(process_webhook(workers[w].webhook_data,
                                               workers[w].signature,
                                               WEBHOOK_SECRET))
    /\ \A r \in StkPushResponses, p \in Phones :
            Structured(initiate_stk_push(p, get_mpesa_amount(1000), r))
    /\ \A r \in CardPaymentResponses :
            Structured(initiate_card_payment(r, "t1"))
    /\ \A r \in StkQueryResponses : Structured(query_stk_status(r))
    /\ \A r \in VerifyResponses : Structured(verify_payment(r))

\* the initiate requests sent to the providers so far (TxIds holds one id:
\* every one of them is for that Transaction)
InitiateRequests(counts) == counts["stkpush"] + counts["payments"]

\* C26: no Transaction is submitted to a provider twice: a step that sends an
\* initiate request (a push request, or the creation of a card payment) sends
\* the first one for its transaction id, and the Transaction is stored
\* pending when it is sent.
C26_InitiateAtMostOnce ==
    [][\A w \in WorkerIds, r \in StkPushResponses \cup CardPaymentResponses :
            (/\ InitiationCloses(w, r)
             /\ InitiateRequests(provider_requests')
                    > InitiateRequests(provider_requests))
            => /\ InitiateRequests(provider_requests') = 1
               /\ StoredRow(w).status = "pending"
      ]_vars

\* C27: a Transaction that has left pending never returns to it: no step
\* stores the status pending on a row whose stored status is another one.
C27_NeverBackToPending ==
    [][\A id \in DOMAIN payment_transactions :
            payment_transactions[id].status # "pending"
            => payment_transactions'[id].status # "pending"
      ]_vars

\* C28: when the webhook of the result is eventually delivered, or a status
\* poll is eventually made, a Transaction that is stored pending with its
\* correlation id, and whose payment has ended at the provider, eventually
\* is stored with a terminal status.
C28_PendingEventuallyTerminal ==
    (SF_vars(WebhookDelivered) \/ SF_vars(PollMade))
    => \A id \in TxIds :
            (/\ id \in DOMAIN payment_transactions
             /\ payment_transactions[id].status = "pending"
             /\ \/ payment_transactions[id].mpesa_checkout_request_id # ""
                \/ payment_transactions[id].flutterwave_tx_ref # "")
            ~> payment_transactions[id].status \in TerminalStatus

\* C28 reached: a Transaction has come to a terminal status by polls alone,
\* the first of which went unanswered.
C28_TerminalByPoll ==
    /\ callback_logs = << >>
    /\ provider_requests["stkpushquery"] + provider_requests["verify_by_reference"] > 1
    /\ \E id \in DOMAIN payment_transactions :
            payment_transactions[id].status \in TerminalStatus

\* C29: every stored Transaction carries the base currency code and, as its
\* amount, the converter's normalization to the base currency of the amount
\* the caller submitted in the display currency: both creation requests store
\* that, and no later step changes the amount or the currency of a row.
C29_AmountNormalizedToBase ==
    [][/\ \A w \in WorkerIds, id \in TxIds, f \in FormPayloads :
            (/\ PaymentFormView_get(w, id, f[1], f[2], f[3], f[4])
             /\ id \notin DOMAIN payment_transactions)
            => /\ payment_transactions'[id].currency = base_currency
               /\ payment_transactions'[id].amount =
                      normalize_amount_for_storage(f[2], Upper(f[3]))
       /\ \A w \in WorkerIds, id \in TxIds, u \in Users, a \in InitiationAmounts,
             m \in {"mpesa", "flutterwave", "paypal", ""}, p \in Phones :
            (/\ PaymentInitiationView_post(w, id, u, a[1], a[2], m, p)
             /\ id \in DOMAIN payment_transactions')
            => /\ payment_transactions'[id].currency = base_currency
               /\ payment_transactions'[id].amount =
                      normalize_amount_for_storage(a[1], Upper(a[2]))
       /\ \A id \in DOMAIN payment_transactions :
            /\ payment_transactions'[id].currency = payment_transactions[id].currency
            /\ payment_transactions'[id].amount = payment_transactions[id].amount
      ]_vars

\* C30: a CallbackRecord is never mutated after creation except in its
\* processed and success flags: no step changes the provider, the transaction
\* id, the raw payload, the timestamp or any other field of a stored record,
\* and the step that writes the outcome of the interpretation on a record
\* leaves it with processed set.
C30_RecordFrozenButFlags ==
    [][/\ \A i \in 1..Len(callback_logs) :
            [callback_logs'[i] EXCEPT !.processed = callback_logs[i].processed,
                                      !.success = callback_logs[i].success]
                = callback_logs[i]
       /\ \A w \in WorkerIds :
            (/\ \/ MpesaCallbackView_post_process(w)
                \/ FlutterwaveWebhookView_post_process(w)
             /\ callback_logs' # callback_logs)
            => callback_logs'[workers[w].callback_record].processed
      ]_vars

\* C31: the M-Pesa gateway never returns an expired token: a token that
\* _get_access_token returns was fetched less than 3500 seconds before, and a
\* call on an object whose token is 3500 seconds old or older sends a new
\* token request.
C31_TokenNeverExpired ==
    [][\A w \in WorkerIds :
            /\ (workers'[w].pc = "service" /\ workers'[w].returned.issued)
               => workers'[w].returned_at - workers'[w].returned.at < TOKEN_VALIDITY
            /\ (/\ workers[w].pc = "service"
                /\ workers[w].access_token.issued
                /\ now - workers[w].access_token.at >= TOKEN_VALIDITY
                /\ workers'[w] # workers[w])
               => /\ workers'[w].pc = "oauth"
                  /\ provider_requests'["oauth"] = provider_requests["oauth"] + 1
      ]_vars

\* C31 reached: the first token of the object having expired, a second one
\* was fetched, and the object has served it from the cache one second
\* before its expiry.
C31_CachedThenRefetched ==
    \E w \in WorkerIds :
        /\ workers[w].pc = "service"
        /\ workers[w].returned.issued
        /\ workers[w].from_cache
        /\ workers[w].returned_at - workers[w].returned.at = TOKEN_VALIDITY - 1
        /\ workers[w].returned.at >= 1 + TOKEN_VALIDITY
        /\ provider_requests["oauth"] = 2

\* C32: no gateway call is retried: a step of a request sends at most one
\* request to each endpoint, at most one request of a gateway operation
\* (push, push query, card payment, verification), and a token request only
\* along with an M-Pesa operation or on its own, whatever the provider
\* answers.
C32_NoInternalRetry ==
    [][/\ \A e \in ProviderEndpoints :
            provider_requests'[e] - provider_requests[e] \in {0, 1}
       /\ Cardinality({e \in ProviderEndpoints \ {"oauth"} :
                            provider_requests'[e] # provider_requests[e]}) <= 1
       /\ provider_requests'["oauth"] # provider_requests["oauth"]
          => /\ provider_requests'["payments"] = provider_requests["payments"]
             /\ provider_requests'["verify_by_reference"]
                    = provider_requests["verify_by_reference"]
      ]_vars

\* C32 reached: a push request has raised (network error, timeout), the
\* Transaction is stored failed with the gateway's message, and one token
\* request and one push request have been sent.
C32_FailedPushSentOnce ==
    /\ provider_requests["oauth"] = 1
    /\ provider_requests["stkpush"] = 1
    /\ \E id \in DOMAIN payment_transactions :
            /\ payment_transactions[id].status = "failed"
            /\ payment_transactions[id].failure_reason
                    = "Network error occurred. Please try again."

\* C33: the token is cached across operations: a request that sends an
\* M-Pesa operation (push, push query) after an earlier operation has
\* obtained a token, which is still within its lifetime, sends no token
\* request.
C33_TokenReusedAcrossRequests ==
    [][(/\ provider_requests["stkpush"] + provider_requests["stkpushquery"] > 0
        /\ \/ provider_requests'["stkpush"] # provider_requests["stkpush"]
           \/ provider_requests'["stkpushquery"] # provider_requests["stkpushquery"])
       => provider_requests'["oauth"] = provider_requests["oauth"]
      ]_vars

\* C34: on the webhook path and on the verify path alike, a status of the
\* card provider is mapped whatever the casing of its letters: successful and
\* completed to completed, pending to processing, failed to failed,
\* cancelled and abandoned to cancelled.
C34_CardStatusTable ==
    \A w \in WorkerIds :
        workers[w].pc = "mapped"
        => LET spelled(word) ==
                   /\ Len(workers[w].chars) = Len(word)
                   /\ \A i \in DOMAIN word :
                        workers[w].chars[i] \in {word[i], UpperLetter(word[i])}
               mapped == workers[w].payment_status
           IN /\ spelled(<<"s", "u", "c", "c", "e", "s", "s", "f", "u", "l">>)
                 => mapped = "completed"
              /\ spelled(<<"c", "o", "m", "p", "l", "e", "t", "e", "d">>)
                 => mapped = "completed"
              /\ spelled(<<"p", "e", "n", "d", "i", "n", "g">>)
                 => mapped = "processing"
              /\ spelled(<<"f", "a", "i", "l", "e", "d">>) => mapped = "failed"
              /\ spelled(<<"c", "a", "n", "c", "e", "l", "l", "e", "d">>)
                 => mapped = "cancelled"
              /\ spelled(<<"a", "b", "a", "n", "d", "o", "n", "e", "d">>)
                 => mapped = "cancelled"

\* C34 reached: the verify path has mapped AbAnDoNeD to cancelled.
C34_MixedCaseMapped ==
    \E w \in WorkerIds :
        /\ workers[w].pc = "mapped"
        /\ workers[w].path = "verify"
        /\ workers[w].chars = <<"A", "b", "A", "n", "D", "o", "N", "e", "D">>
        /\ workers[w].payment_status = "cancelled"

\* C35: phone normalization yields one canonical format: a number that
\* _format_phone_number returns is exactly 12 digits beginning with 254, and
\* every other input is rejected with an error.
C35_CanonicalPhone ==
    \A w \in WorkerIds :
        (workers[w].pc = "formatted" /\ ~workers[w].formatted_phone.raised)
        => LET phone == workers[w].formatted_phone.phone
           IN /\ Len(phone) = 12
              /\ SubSeq(phone, 1, 3) = <<"2", "5", "4">>
              /\ \A i \in DOMAIN phone : phone[i] \in DigitChars

\* C36: a card webhook is rejected whenever its signature header is missing
\* or empty, or no webhook secret is configured, whatever the payload: the
\* record is marked failed with the signature error, the request ends, and
\* no Transaction is touched.
C36_UnsignedOrUnconfiguredRejected ==
    [][\A w \in WorkerIds :
            (/\ FlutterwaveWebhookView_post_process(w)
             /\ \/ workers[w].signature = EmptySignature
                \/ WEBHOOK_SECRET \in {Null, ""})
            => /\ payment_transactions' = payment_transactions
               /\ workers'[w] = Idle
               /\ ~callback_logs'[workers[w].callback_record].success
               /\ callback_logs'[workers[w].callback_record].error_message
                    = "Invalid webhook signature"
               /\ firebase_completed' = firebase_completed
      ]_vars

\* C36 reached: with the secret set empty, a webhook of a successful payment
\* for the stored Transaction has been rejected for its signature, and the
\* Transaction is pending.
C36_UnconfiguredSecretRejected ==
    /\ WEBHOOK_SECRET = ""
    /\ \E i \in DOMAIN callback_logs :
            /\ callback_logs[i].error_message = "Invalid webhook signature"
            /\ callback_logs[i].raw_data.tx_ref \in DOMAIN payment_transactions
            /\ callback_logs[i].raw_data.status = JStr("successful")
    /\ \A w \in WorkerIds : workers[w] = Idle
    /\ requests = 1
    /\ \A id \in DOMAIN payment_transactions :
            payment_transactions[id].status = "pending"

\* C37: a status poll on a Transaction whose stored status is terminal makes
\* no provider call, invokes no completion sync and changes no field of the
\* Transaction: the request ends in the step that read the row, with the
\* stored status as its answer.
C37_TerminalPollReadOnly ==
    [][\A w \in WorkerIds, id \in TxIds :
            (/\ PaymentStatusAPIView_get(w, id)
             /\ id \in DOMAIN payment_transactions
             /\ payment_transactions[id].status \in TerminalStatus)
            => /\ workers'[w] = Idle
               /\ provider_requests' = provider_requests
               /\ firebase_completed' = firebase_completed
               /\ firebase_result' = firebase_result
               /\ payment_transactions' = payment_transactions
               /\ http_response' = StatusResponse(payment_transactions[id])
      ]_vars

\* C37 reached: a poll has answered with the failed status of a stored
\* M-Pesa Transaction that carries a checkout-request id, every worker is
\* free, and no status query has been sent to a provider.
C37_FailedPolledWithoutQuery ==
    /\ http_response.view = "PaymentStatusAPIView.get"
    /\ http_response.status_code = 200
    /\ http_response.body.status = "failed"
    /\ \A w \in WorkerIds : workers[w] = Idle
    /\ provider_requests["stkpushquery"] = 0
    /\ provider_requests["verify_by_reference"] = 0
    /\ \E id \in DOMAIN payment_transactions :
            /\ payment_transactions[id].status = "failed"
            /\ payment_transactions[id].payment_method = "mpesa"
            /\ payment_transactions[id].mpesa_checkout_request_id # ""

\* C38: no reconciliation (M-Pesa webhook, card webhook, status poll, card
\* redirect callback) changes the transaction id, the owning user, the amount
\* or the currency of a Transaction: in every step a stored row stays stored
\* under its id with the four as they were.
C38_IdentityFieldsKept ==
    [][\A id \in DOMAIN payment_transactions :
            /\ id \in DOMAIN payment_transactions'
            /\ payment_transactions'[id].transaction_id
                    = payment_transactions[id].transaction_id
            /\ payment_transactions'[id].transaction_id = id
            /\ payment_transactions'[id].user_uid = payment_transactions[id].user_uid
            /\ payment_transactions'[id].amount = payment_transactions[id].amount
            /\ payment_transactions'[id].currency = payment_transactions[id].currency
      ]_vars

\* C38 reached: a card Transaction created for u1 with 10.00 USD has been
\* completed by a reconciliation that stored the provider's reference, and
\* is stored for u1 with 10.00 USD.
C38_ReconciledWithCreationValues ==
    \E id \in DOMAIN payment_transactions :
        /\ payment_transactions[id].status = "completed"
        /\ payment_transactions[id].payment_method = "flutterwave"
        /\ payment_transactions[id].flutterwave_flw_ref = "FLW-1"
        /\ payment_transactions[id].transaction_id = id
        /\ payment_transactions[id].user_uid = "u1"
        /\ payment_transactions[id].amount = 1000
        /\ payment_transactions[id].currency = "USD"

\* C39: an M-Pesa webhook that carries the checkout-request id a successful
\* initiate was given always resolves to a Transaction, also when it is
\* handled right after the provider's acknowledgement, while the initiating
\* request is still on its way: its record is marked a success and never
\* "Transaction not found".
C39_IssuedIdResolves ==
    [][\A w \in WorkerIds :
            (/\ MpesaCallbackView_post_process(w)
             /\ workers[w].callback_data.shape = "dict"
             /\ workers[w].callback_data.CheckoutRequestID \in IssuedCheckoutIds)
            => /\ callback_logs'[workers[w].callback_record].success
               /\ callback_logs'[workers[w].callback_record].error_message
                    # "Transaction not found"
      ]_vars

====
